---------------------------- MODULE Spec2Model ----------------------------
(***************************************************************************)
(* A model of rcontrol's asynchronous core: sessions that track live       *)
(* tasks (core.py), command tasks and background tasks (core.py,           *)
(* local.py) and the stream multiplexer that merges the output streams of  *)
(* a command under two timeouts (streamreader.py).                         *)
(*                                                                         *)
(* The specifications share the variables:                                 *)
(*   Spec        one session, several tasks, the caller's thread and the   *)
(*               worker threads; the multiplexer of a command task is      *)
(*               reduced to its two outcomes (finished, timed out);        *)
(*   SpecReader  one command task with the multiplexer in full: reader     *)
(*               threads, queue, clock, merge loop;                        *)
(*   SpecError   CommandTask.error() applied to every state its fields     *)
(*               can be put in (_set_exit_code, _on_timeout);              *)
(*   SpecOptions, SpecManager, SpecCopy  the options of a command task,    *)
(*               SessionManager, fs.copy_file / copy_dir;                  *)
(*   SpecLock    Spec's registration, unregistration and wait_for_tasks    *)
(*               steps at the granularity of the with self._lock blocks;   *)
(*   SpecSpawn   command tasks whose constructor may raise after           *)
(*               Task.__init__, FairSpawn with the threads running;        *)
(*   FairReader  SpecReader with the threads and the clock running.        *)
(* Every thread is preemptive: one action is one step a thread takes       *)
(* without releasing control in a way another thread could observe.        *)
(***************************************************************************)
EXTENDS Integers, Sequences, FiniteSets, TLC

\* ------------------------------------------------------------- bounds
\* number of tasks ever created on the session
MaxTasks == 2
\* number of wait_for_tasks() calls the caller makes
MaxWftCalls == 2
\* number of explicit Task.wait() calls the caller makes
MaxWaits == 2
\* number of lines a stream carries
MaxLines == 2
\* last instant of the clock
MaxTime == 3
\* largest configured timeout / output_timeout
MaxTimeout == 2
\* largest exit status and expected exit code CommandTask.error() is tried on
MaxCode == 2
\* direct calls of _unregister() on one task (SpecError)
MaxUnregs == 2
\* chunk sizes and file lengths copy_file is tried with
MaxChunk == 2
MaxBytes == 3
\* lines per stream when the readers are run to their end under fairness
MaxFairLines == 1

TaskIds == 1..MaxTasks

\* Python's None, and a present value, for fields that are optional
None == <<>>
Some(x) == <<x>>

\* exit statuses a process reports, expected exit codes a caller passes
ExitCodes == {0, 1}
ExpectedCodes == {None, Some(0)}

VARIABLES
    \* BaseSession
    tasks,              \* _tasks: the live tasks, in registration order
    silent_errors,      \* _silent_errors
    \* Task / CommandTask / ThreadableTask fields, per task
    kind,               \* "none" (not created), "cmd", "thr"
    cpc,                \* how far the constructor got
    parent,             \* {} created by the caller, {t} by a callback of t
    wpc,                \* position of the worker thread
    explicit_wait,
    timed_out,          \* CommandTask.__timed_out
    exit_code,          \* CommandTask.__exit_code
    expected_exit_code, \* CommandTask.__expected_exit_code
    exception,          \* ThreadableTask.exception
    \* the caller's thread
    mpc,                \* position of the caller
    mtask,              \* the task the caller waits for
    nwaits,             \* explicit wait() calls made so far
    wft_raise,          \* raise_if_error of the wait / wait_for_tasks call in progress
    wft_errors,         \* wait_for_tasks: errors
    tasks_seen,         \* wait_for_tasks: tasks_seen
    wft_tasks,          \* wait_for_tasks: tasks (the snapshot)
    wft_todo,           \* wait_for_tasks: what the for loop has left
    \* StreamsReader of task 1 (SpecReader)
    cfg,                \* [timeout, output_timeout] as configured
    source,             \* what each stream carries in all
    content,            \* what each stream has not delivered yet
    rstate,             \* reader threads: "absent", "alive", "dead"
    queue,              \* the Queue of (line, callback)
    now,                \* time.time()
    rd,                 \* locals of StreamsReader._read
    obs,                \* what an observer of the streams and the clock noted
    \* history
    calls,              \* callbacks the multiplexer invoked, in order
    results,            \* what each wait_for_tasks() call reported
    spawned_in_call,    \* tasks callbacks registered since wait_for_tasks began
    silent_due,         \* finished, failed, never waited when a call began
    appended,           \* <<error, call>>: put in _silent_errors during that call
    err_result,         \* what the last error() call returned (SpecError)
    waits,              \* what each wait() call of the caller did, in order
    scope,              \* the with block of the session: auto_close, and what __exit__ did
    counts,             \* per task: registrations, unregistrations, runs, raises, callbacks
    \* what the specifications of single functions work on
    opt,                \* CommandTask.__init__: its stream arguments and what it kept
    mgr,                \* a SessionManager and its member sessions (SpecManager)
    fs,                 \* the file trees of two sessions and a copy_dir call (SpecCopy)
    lock                \* BaseSession._lock: who holds it, for which with block (SpecLock)

sessVars == <<tasks, silent_errors>>
taskVars == <<kind, cpc, parent, wpc, explicit_wait, timed_out, exit_code,
              expected_exit_code, exception>>
mainVars == <<mpc, mtask, nwaits, wft_raise, wft_errors, tasks_seen, wft_tasks, wft_todo>>
readVars == <<cfg, source, content, rstate, queue, now, rd, obs>>
histVars == <<calls, results, spawned_in_call, silent_due, appended, err_result>>
lifeVars == <<waits, scope, counts>>
auxVars == <<opt, mgr, fs, lock>>
vars == <<sessVars, taskVars, mainVars, readVars, histVars, lifeVars, auxVars>>

\* ------------------------------------------------------------- errors
\* TimeoutError, ExitCodeError, TaskError: an instance is identified by its
\* class and its task
TimeoutError(t) == [kind |-> "TimeoutError", task |-> t]
ExitCodeError(t) == [kind |-> "ExitCodeError", task |-> t]
TaskError(t) == [kind |-> "TaskError", task |-> t]

\* error() with the exit code looked at before the timeout
CommandTaskErrorExitCodeFirst(t) ==
    IF /\ exit_code[t] # None
       /\ expected_exit_code[t] # None
       /\ exit_code[t] # expected_exit_code[t]
    THEN Some(ExitCodeError(t))
    ELSE IF timed_out[t] THEN Some(TimeoutError(t)) ELSE None

\* CommandTask.error()
CommandTaskError(t) ==
    IF timed_out[t]
    THEN Some(TimeoutError(t))
    ELSE IF /\ exit_code[t] # None
            /\ expected_exit_code[t] # None
            /\ exit_code[t] # expected_exit_code[t]
         THEN Some(ExitCodeError(t))
         ELSE None

\* error() of a background task that keeps no exception
ThreadableTaskNoError(t) == None

\* ThreadableTask.error()
ThreadableTaskError(t) == exception[t]

\* Task.error(), by class
Error(t) == IF kind[t] = "cmd" THEN CommandTaskError(t) ELSE ThreadableTaskError(t)

\* StreamsReader.is_alive() / ThreadableTask's thread.is_alive(): the thread
\* was started and has not ended
IsAlive(t) == wpc[t] \notin {"unstarted", "dead"}

\* list.remove that removes nothing
ListKeep(s, x) == s

\* list.remove(x): the first occurrence goes, an absent x raises ValueError
\* (which _unregister_task swallows)
RECURSIVE ListRemove(_, _)
ListRemove(s, x) ==
    IF s = <<>> THEN <<>>
    ELSE IF Head(s) = x THEN Tail(s)
    ELSE <<Head(s)>> \o ListRemove(Tail(s), x)

SeqToSet(s) == {s[i] : i \in 1..Len(s)}

\* a wait_for_tasks call is in progress
InWaitForTasks == mpc \in {"wft_snap", "wft_loop", "wft_join", "wft_clear", "wft_final"}

\* ... and has a snapshot of the live tasks still to take
BeforeLastSnapshot == mpc \in {"wft_snap", "wft_loop", "wft_join", "wft_clear"}

\* the number of the wait_for_tasks call in progress (0: none)
CallInProgress == IF InWaitForTasks THEN Len(results) + 1 ELSE 0

\* ------------------------------------------------------ BaseSession
\* one more occurrence of event f ("reg", "unreg", "run", "raised", "cb") of
\* task t
Bump(c, t, f) == [c EXCEPT ![t][f] = @ + 1]

\* the id a new task gets: ids are handed out in order
NextId == CHOOSE t \in TaskIds : kind[t] = "none" /\ \A u \in TaskIds : u < t => kind[u] # "none"

\* _register_task that appends the task twice
RegisterTwice(t) == tasks' = Append(Append(tasks, t), t)

\* BaseSession._register_task, under the lock
RegisterTask(t) == tasks' = Append(tasks, t)

\* what _unregister_task keeps of a task's error: nothing for a task that was
\* waited explicitly, else task.error() when there is one
KeptSilentError(t) == IF explicit_wait[t] THEN None ELSE Error(t)

\* BaseSession._unregister_task, under the lock
UnregisterTask(t) ==
    /\ tasks' = ListRemove(tasks, t)
    /\ silent_errors' = silent_errors \o KeptSilentError(t)
    /\ appended' = appended \cup {<<e, CallInProgress>> : e \in SeqToSet(KeptSilentError(t))}

\* ------------------------------------------------- task construction
\* Task.__init__: the task registers itself first; the subclass sets its
\* fields and starts its worker afterwards, in later steps of the same thread
Construct(t, k, exp, who) ==
    /\ \E u \in TaskIds : kind[u] = "none"
    /\ t = NextId
    /\ k = "thr" => exp = None
    /\ kind' = [kind EXCEPT ![t] = k]
    /\ parent' = [parent EXCEPT ![t] = who]
    /\ expected_exit_code' = [expected_exit_code EXCEPT ![t] = exp]
    /\ RegisterTask(t)
    /\ counts' = Bump(counts, t, "reg")

\* session.execute(command, expected_exit_code=exp) / session.copy_file(...)
\* on the caller's thread: the whole constructor, worker started. No other
\* thread looks at a task the caller is constructing: wait_for_tasks runs on
\* the caller's thread, and workers touch their own task only.
MainExecute(k, exp) ==
    /\ mpc = "idle"
    /\ Construct(NextId, k, exp, {})
    /\ cpc' = [cpc EXCEPT ![NextId] = "built"]
    /\ wpc' = [wpc EXCEPT ![NextId] = "running"]
    /\ UNCHANGED <<silent_errors, explicit_wait, timed_out, exit_code, exception,
                   mainVars, readVars, histVars, waits, scope, auxVars>>

\* --------------------------------------------------- worker threads
\* the multiplexer of a command task ends by natural completion and
\* LocalExec._on_finished / SshExec._on_finished reads the exit status (the
\* merge loop itself is SpecReader's)
MuxFinished(t, c) ==
    /\ kind[t] = "cmd" /\ wpc[t] = "running"
    /\ exit_code' = [exit_code EXCEPT ![t] = IF timed_out[t] THEN @ ELSE Some(c)]
    /\ wpc' = [wpc EXCEPT ![t] = "fin_unreg"]
    /\ UNCHANGED <<sessVars, kind, cpc, parent, explicit_wait, timed_out,
                   expected_exit_code, exception, mainVars, readVars, histVars, lifeVars, auxVars>>

\* the multiplexer of a command task ends by a timeout
MuxTimedOut(t) ==
    /\ kind[t] = "cmd" /\ wpc[t] = "running"
    /\ wpc' = [wpc EXCEPT ![t] = "to_unreg"]
    /\ UNCHANGED <<sessVars, kind, cpc, parent, explicit_wait, timed_out, exit_code,
                   expected_exit_code, exception, mainVars, readVars, histVars, lifeVars, auxVars>>

\* CommandTask._on_finished: self._unregister()
OnFinishedUnregister(t) ==
    /\ wpc[t] = "fin_unreg"
    /\ UnregisterTask(t)
    /\ counts' = Bump(Bump(counts, t, "unreg"), t, "cb")
    /\ wpc' = [wpc EXCEPT ![t] = "fin_cb"]
    /\ UNCHANGED <<kind, cpc, parent, explicit_wait, timed_out, exit_code,
                   expected_exit_code, exception, mainVars, readVars,
                   calls, results, spawned_in_call, silent_due, err_result,
                   waits, scope, auxVars>>

\* CommandTask._on_timeout: self._unregister()
OnTimeoutUnregister(t) ==
    /\ wpc[t] = "to_unreg"
    /\ UnregisterTask(t)
    /\ counts' = Bump(counts, t, "unreg")
    /\ wpc' = [wpc EXCEPT ![t] = "to_set"]
    /\ UNCHANGED <<kind, cpc, parent, explicit_wait, timed_out, exit_code,
                   expected_exit_code, exception, mainVars, readVars,
                   calls, results, spawned_in_call, silent_due, err_result,
                   waits, scope, auxVars>>

\* CommandTask._on_timeout: self.__timed_out = True
OnTimeoutSet(t) ==
    /\ wpc[t] = "to_set"
    /\ timed_out' = [timed_out EXCEPT ![t] = TRUE]
    /\ wpc' = [wpc EXCEPT ![t] = "to_cb"]
    /\ counts' = Bump(counts, t, "cb")
    /\ UNCHANGED <<sessVars, kind, cpc, parent, explicit_wait, exit_code,
                   expected_exit_code, exception, mainVars, readVars, histVars, waits, scope, auxVars>>

\* ThreadableTask's wrapper: callable(*args, **kwargs) returns
ThrReturn(t) ==
    /\ kind[t] = "thr" /\ wpc[t] = "running"
    /\ wpc' = [wpc EXCEPT ![t] = "thr_unreg"]
    /\ counts' = Bump(counts, t, "run")
    /\ UNCHANGED <<sessVars, kind, cpc, parent, explicit_wait, timed_out, exit_code,
                   expected_exit_code, exception, mainVars, readVars, histVars, waits, scope, auxVars>>

\* ThreadableTask's wrapper: the callable raises, self.exception = TaskError(...)
ThrRaise(t) ==
    /\ kind[t] = "thr" /\ wpc[t] = "running"
    /\ exception' = [exception EXCEPT ![t] = Some(TaskError(t))]
    /\ wpc' = [wpc EXCEPT ![t] = "thr_unreg"]
    /\ counts' = Bump(Bump(counts, t, "run"), t, "raised")
    /\ UNCHANGED <<sessVars, kind, cpc, parent, explicit_wait, timed_out, exit_code,
                   expected_exit_code, mainVars, readVars, histVars, waits, scope, auxVars>>

\* ThreadableTask's wrapper, finally: self._unregister()
ThrUnregister(t) ==
    /\ wpc[t] = "thr_unreg"
    /\ UnregisterTask(t)
    /\ counts' = Bump(Bump(counts, t, "unreg"), t, "cb")
    /\ wpc' = [wpc EXCEPT ![t] = "thr_cb"]
    /\ UNCHANGED <<kind, cpc, parent, explicit_wait, timed_out, exit_code,
                   expected_exit_code, exception, mainVars, readVars,
                   calls, results, spawned_in_call, silent_due, err_result,
                   waits, scope, auxVars>>

\* the constructor of the task has returned
Constructed(t) == cpc[t] = "built"

\* the worker is inside the user's terminal callback (on_finished, on_timeout,
\* finished_callback)
InCallback(t) == wpc[t] \in {"fin_cb", "to_cb", "thr_cb"}

\* the user's callback starts a task on the same session: Task.__init__
CallbackSpawn(t, k, exp) ==
    /\ InCallback(t)
    /\ \A c \in TaskIds : parent[c] # {t}
    /\ Construct(NextId, k, exp, {t})
    /\ cpc' = [cpc EXCEPT ![NextId] = "registered"]
    /\ spawned_in_call' = IF BeforeLastSnapshot THEN spawned_in_call \cup {NextId}
                          ELSE spawned_in_call
    /\ UNCHANGED <<silent_errors, wpc, explicit_wait, timed_out, exit_code, exception,
                   mainVars, readVars, calls, results, silent_due, appended, err_result,
                   waits, scope, auxVars>>

\* CommandTask.__init__ after Task.__init__: the fields and self._reader
\* (a reader whose thread is still None)
CommandTaskInit(t) ==
    /\ kind[t] = "cmd" /\ cpc[t] = "registered"
    /\ cpc' = [cpc EXCEPT ![t] = "initialised"]
    /\ exit_code' = [exit_code EXCEPT ![t] = None]
    /\ timed_out' = [timed_out EXCEPT ![t] = FALSE]
    /\ UNCHANGED <<sessVars, kind, parent, wpc, explicit_wait, expected_exit_code,
                   exception, mainVars, readVars, histVars, lifeVars, auxVars>>

\* LocalExec.__init__: Popen, then self._reader.start(proc)
StartReader(t) ==
    /\ kind[t] = "cmd" /\ cpc[t] = "initialised"
    /\ cpc' = [cpc EXCEPT ![t] = "built"]
    /\ wpc' = [wpc EXCEPT ![t] = "running"]
    /\ UNCHANGED <<sessVars, kind, parent, explicit_wait, timed_out, exit_code,
                   expected_exit_code, exception, mainVars, readVars, histVars, lifeVars, auxVars>>

\* ThreadableTask.__init__: self.exception = None, thread.start()
StartThread(t) ==
    /\ kind[t] = "thr" /\ cpc[t] = "registered"
    /\ cpc' = [cpc EXCEPT ![t] = "thread_started"]
    /\ wpc' = [wpc EXCEPT ![t] = "running"]
    /\ exception' = [exception EXCEPT ![t] = None]
    /\ UNCHANGED <<sessVars, kind, parent, explicit_wait, timed_out, exit_code,
                   expected_exit_code, mainVars, readVars, histVars, lifeVars, auxVars>>

\* ThreadableTask.__init__: self.thread = thread, after the thread was started
AssignThread(t) ==
    /\ kind[t] = "thr" /\ cpc[t] = "thread_started"
    /\ cpc' = [cpc EXCEPT ![t] = "built"]
    /\ UNCHANGED <<sessVars, kind, parent, wpc, explicit_wait, timed_out, exit_code,
                   expected_exit_code, exception, mainVars, readVars, histVars, lifeVars, auxVars>>

\* _read without the return that follows timeout_callback()
AfterCallbackNoReturn(t) == IF wpc[t] = "to_cb" THEN "drain" ELSE "dead"

\* where the worker goes when the terminal callback is over: _read returns
\* after timeout_callback(), finished_callback() is its last statement, and so
\* is the wrapper's finished_callback(self)
AfterCallback(t) == "dead"

\* the user's callback returns (or there is none) and the worker thread ends
CallbackReturn(t) ==
    /\ InCallback(t)
    /\ \A c \in TaskIds : parent[c] = {t} => Constructed(c)
    /\ wpc' = [wpc EXCEPT ![t] = AfterCallback(t)]
    /\ UNCHANGED <<sessVars, kind, cpc, parent, explicit_wait, timed_out, exit_code,
                   expected_exit_code, exception, mainVars, readVars, histVars, lifeVars, auxVars>>

\* ------------------------------------------------ the caller's thread
\* the exception an attribute that is missing or None gives
AttributeError(t) == [kind |-> "AttributeError", task |-> t]

\* _wait on a task that an earlier wait() has returned from raises
WaitRaisesAfterWait(t) == \E i \in 1..Len(waits) : waits[i].task = t

\* _wait reads an attribute the constructor has not set yet: self._reader of a
\* command task, self.thread of a background task
WaitRaisesAttributeError(t) ==
    \/ kind[t] = "cmd" /\ cpc[t] = "registered"
    \/ kind[t] = "thr" /\ cpc[t] \in {"registered", "thread_started"}

\* what _wait returns: CommandTask the exit code, ThreadableTask nothing
WaitValue(t) == IF kind[t] = "cmd" THEN exit_code[t] ELSE None

\* Task.wait(raise_if_error=r) by the caller, on a task the caller created:
\* self.explicit_wait = True, then self._wait(...) blocks
MainWaitBegin(t, r) ==
    /\ mpc = "idle"
    /\ nwaits < MaxWaits
    /\ kind[t] # "none" /\ parent[t] = {}
    /\ explicit_wait' = [explicit_wait EXCEPT ![t] = TRUE]
    /\ mpc' = "wait"
    /\ mtask' = t
    /\ wft_raise' = r
    /\ nwaits' = nwaits + 1
    /\ UNCHANGED <<sessVars, kind, cpc, parent, wpc, timed_out, exit_code,
                   expected_exit_code, exception, wft_errors, tasks_seen,
                   wft_tasks, wft_todo, readVars, histVars, lifeVars, auxVars>>

\* CommandTask._wait / ThreadableTask._wait: join when alive, raise the error
\* when asked to and there is one, else return; reading an attribute the task
\* does not have raises AttributeError
MainWaitEnd ==
    /\ mpc = "wait"
    /\ WaitRaisesAttributeError(mtask) \/ ~IsAlive(mtask)
    /\ LET raises == wft_raise /\ Error(mtask) # None IN
       waits' = Append(waits,
                  IF WaitRaisesAttributeError(mtask)
                  THEN [task |-> mtask,
                        raise_if_error |-> wft_raise,
                        error |-> Error(mtask),
                        raised |-> Some(AttributeError(mtask)),
                        returned |-> None]
                  ELSE [task |-> mtask,
                        raise_if_error |-> wft_raise,
                        error |-> Error(mtask),
                        raised |-> IF raises THEN Error(mtask) ELSE None,
                        returned |-> IF raises THEN None ELSE WaitValue(mtask)])
    /\ mpc' = "idle"
    /\ wft_raise' = FALSE
    /\ UNCHANGED <<sessVars, taskVars, mtask, nwaits, wft_errors,
                   tasks_seen, wft_tasks, wft_todo, readVars, histVars, scope, counts, auxVars>>

\* the tasks that finished with an error and were never waited
FinishedSilently == {t \in TaskIds : /\ kind[t] # "none"
                                     /\ wpc[t] = "dead"
                                     /\ ~explicit_wait[t]
                                     /\ Error(t) # None}

\* wait_for_tasks(raise_if_error=r) is entered: errors = [], tasks_seen = set()
EnterWaitForTasks(r) ==
    /\ mpc = "idle"
    /\ Len(results) < MaxWftCalls
    /\ mpc' = "wft_snap"
    /\ wft_raise' = r
    /\ wft_errors' = <<>>
    /\ tasks_seen' = {}
    /\ wft_tasks' = {}
    /\ wft_todo' = {}
    /\ silent_due' = silent_due \cup FinishedSilently
    /\ spawned_in_call' = {}
    /\ UNCHANGED <<sessVars, taskVars, mtask, nwaits, readVars,
                   calls, results, appended, err_result, waits, counts, auxVars>>

\* BaseSession.wait_for_tasks(raise_if_error=r), called inside the with block
WftBegin(r) ==
    /\ EnterWaitForTasks(r)
    /\ UNCHANGED scope

\* a snapshot that forgets which tasks were waited already
AllLiveTasks == SeqToSet(tasks)

\* tasks = set(self._tasks); tasks = tasks - tasks_seen
UnseenTasks == SeqToSet(tasks) \ tasks_seen

\* wait_for_tasks, under the lock: errors.extend(self._silent_errors),
\* tasks = set(self._tasks); then tasks = tasks - tasks_seen
WftSnapshot ==
    /\ mpc = "wft_snap"
    /\ wft_errors' = wft_errors \o silent_errors
    /\ wft_tasks' = UnseenTasks
    /\ wft_todo' = wft_tasks'
    /\ mpc' = IF wft_tasks' = {} THEN "wft_final" ELSE "wft_loop"
    /\ UNCHANGED <<sessVars, taskVars, mtask, nwaits, wft_raise, tasks_seen,
                   readVars, histVars, lifeVars, auxVars>>

\* wait_for_tasks, for task in tasks: task.wait(raise_if_error=False) sets
\* explicit_wait; a set is iterated in no particular order
WftWaitBegin(t) ==
    /\ mpc = "wft_loop"
    /\ t \in wft_todo
    /\ explicit_wait' = [explicit_wait EXCEPT ![t] = TRUE]
    /\ mtask' = t
    /\ mpc' = "wft_join"
    /\ UNCHANGED <<sessVars, kind, cpc, parent, wpc, timed_out, exit_code,
                   expected_exit_code, exception, nwaits, wft_raise,
                   wft_errors, tasks_seen, wft_tasks, wft_todo, readVars, histVars, lifeVars, auxVars>>

\* wait_for_tasks: task.wait() returns (the worker is not alive, or was joined),
\* then error = task.error() is collected
WftJoin ==
    /\ mpc = "wft_join"
    /\ ~WaitRaisesAttributeError(mtask)
    /\ ~IsAlive(mtask)
    /\ wft_errors' = wft_errors \o Error(mtask)
    /\ wft_todo' = wft_todo \ {mtask}
    /\ mpc' = IF wft_todo' = {} THEN "wft_clear" ELSE "wft_loop"
    /\ UNCHANGED <<sessVars, taskVars, mtask, nwaits, wft_raise, tasks_seen,
                   wft_tasks, readVars, histVars, lifeVars, auxVars>>

\* wait_for_tasks: task.wait() raises AttributeError, which leaves
\* wait_for_tasks
WftCrash ==
    /\ mpc = "wft_join"
    /\ WaitRaisesAttributeError(mtask)
    /\ mpc' = "crashed"
    /\ UNCHANGED <<sessVars, taskVars, mtask, nwaits, wft_raise, wft_errors,
                   tasks_seen, wft_tasks, wft_todo, readVars, histVars, lifeVars, auxVars>>

\* wait_for_tasks, after the for loop: under the lock,
\* self._silent_errors = []; then tasks_seen.update(tasks)
WftClear ==
    /\ mpc = "wft_clear"
    /\ silent_errors' = <<>>
    /\ tasks_seen' = tasks_seen \cup wft_tasks
    /\ mpc' = "wft_snap"
    /\ UNCHANGED <<tasks, taskVars, mtask, nwaits, wft_raise, wft_errors,
                   wft_tasks, wft_todo, readVars, histVars, lifeVars, auxVars>>

\* wait_for_tasks, no unseen task left: under the lock,
\* self._silent_errors = []; break; raise TaskErrors(errors) or return errors
WftReturn ==
    /\ mpc = "wft_final"
    /\ silent_errors' = <<>>
    /\ results' = Append(results, [raise_if_error |-> wft_raise,
                                   errors |-> wft_errors,
                                   raised |-> wft_raise /\ wft_errors # <<>>])
    /\ mpc' = IF scope.state = "exiting" THEN "exit_close" ELSE "idle"
    /\ wft_raise' = FALSE
    /\ wft_errors' = <<>>
    /\ tasks_seen' = {}
    /\ UNCHANGED <<tasks, taskVars, mtask, nwaits, wft_tasks, wft_todo, readVars,
                   calls, spawned_in_call, silent_due, appended, err_result, lifeVars, auxVars>>

\* BaseSession.__exit__(type, value, traceback), the with block being left
\* with an exception (value is not None) or without: it begins with
\* errors = self.wait_for_tasks(raise_if_error=False)
ExitBegin(exc) ==
    /\ scope.state = "open"
    /\ scope' = [scope EXCEPT !.state = "exiting", !.exception = exc,
                              !.log = <<"wait_for_tasks">>]
    /\ EnterWaitForTasks(FALSE)

\* what __exit__ ends with: TaskErrors(errors) when there are errors and the
\* block raised nothing; else it returns None, and an exception of the block
\* goes on to the caller
ExitOutcome(errors, exc) ==
    IF errors # <<>> /\ ~exc THEN "raise TaskErrors"
    ELSE IF exc THEN "propagate" ELSE "return"

\* __exit__ after wait_for_tasks returned: close() when auto_close, then the
\* errors are raised, or printed, or there is none
ExitFinish ==
    /\ mpc = "exit_close"
    /\ scope' = [scope EXCEPT
                    !.state = "exited",
                    !.log = @ \o (IF scope.auto_close THEN <<"close">> ELSE <<>>)
                              \o <<ExitOutcome(results[Len(results)].errors,
                                               scope.exception)>>]
    /\ mpc' = "exited"
    /\ UNCHANGED <<sessVars, taskVars, mtask, nwaits, wft_raise, wft_errors,
                   tasks_seen, wft_tasks, wft_todo, readVars, histVars, waits, counts, auxVars>>

\* ----------------------------------------------------- StreamsReader
Streams == {"stdout", "stderr"}

\* the characters str.rstrip() removes
Whitespace == {" ", "\n", "\t"}

\* line.rstrip()
RECURSIVE RStrip(_)
RStrip(l) ==
    IF l = <<>> THEN <<>>
    ELSE IF l[Len(l)] \in Whitespace THEN RStrip(SubSeq(l, 1, Len(l) - 1))
    ELSE l

\* the i-th line stream.readline() returns on stream s: text with a blank
\* inside, ended by "\n" or by " \n"; the lines of a stream differ in length
LineOf(s, i) ==
    <<" ">> \o [j \in 1..i |-> IF s = "stdout" THEN "o" ELSE "e"]
            \o (IF i % 2 = 1 THEN <<"\n">> ELSE <<" ", "\n">>)

\* a stream that carries n lines
StreamLines(s, n) == [i \in 1..n |-> LineOf(s, i)]

\* timeout= / output_timeout= as a command is given them
Timeouts == {None} \cup {Some(d) : d \in 1..MaxTimeout}

\* a deadline that is the duration itself
DeadlineFromZero(d, base) == d

\* timeout += start_time, for a timeout that is not None
Deadline(d, base) == IF d = None THEN None ELSE Some(d[1] + base)

\* a test of the readers that never finds one alive
ReaderNeverAlive == FALSE

\* a test that takes a reader that does not exist for one that is alive
AnyReaderNotDead == \E s \in Streams : rstate[s] # "dead"

\* the while test of _read: a reader thread that exists and is alive
AnyReaderAlive == \E s \in Streams : rstate[s] = "alive"

\* not has_line, output_timeout is not None and now > output_timeout
IdleNeverExceeded(r) == FALSE
IdleExceeded(r) ==
    /\ r.item = None
    /\ r.output_timeout # None
    /\ r.now > r.output_timeout[1]

\* timeout is not None and now > timeout
TotalNeverExceeded(r) == FALSE
TotalExceeded(r) ==
    /\ r.timeout # None
    /\ r.now > r.timeout[1]

\* after the loop: if timed_out, timeout_callback() and return; else drain
LoopExitAlwaysDrain(to) == "drain"
LoopExit(to) == IF to THEN "timeout_cb" ELSE "drain"

\* queue.empty()
QueueLooksEmpty == TRUE
QueueEmpty == queue = <<>>

\* every line handed to the stdout callback, whatever stream it came from
LineCallToStdout(it) == [cb |-> "stdout", line |-> RStrip(it.line)]

\* the callbacks, as the history records their invocation
LineCall(it) == [cb |-> it.source, line |-> RStrip(it.line)]
TimeoutCall == [cb |-> "timeout", line |-> <<>>]
FinishedCall == [cb |-> "finished", line |-> <<>>]

\* the observer notes a line written or delivered now; it keeps no time when
\* no output_timeout is configured
Noted(o) == IF cfg.output_timeout = None THEN o ELSE [o EXCEPT !.quiet_since = now]

\* the observer notes a line the command writes now, and whether the command
\* has written it sooner than output_timeout after the line before (after its
\* start, for the first line)
Written(o) ==
    IF cfg.output_timeout = None THEN o
    ELSE [o EXCEPT !.quiet_since = now,
                   !.last_line = now,
                   !.steady = @ /\ now - o.last_line < cfg.output_timeout[1]]

\* a line is out of the queue and not yet given to its callback
LineInHand(t) == wpc[t] \in {"sample", "callback"} /\ rd.item # None

\* _read_stream: line = stream.readline(); queue.put((line, callback))
ReadLine(s) ==
    /\ rstate[s] = "alive"
    /\ content[s] # <<>>
    /\ queue' = Append(queue, [line |-> Head(content[s]), source |-> s])
    /\ content' = [content EXCEPT ![s] = Tail(@)]
    /\ obs' = Written(obs)
    /\ UNCHANGED <<sessVars, taskVars, mainVars, histVars, cfg, source, rstate, now, rd, lifeVars, auxVars>>

\* _read_stream: readline() returns "", the stream is closed, the thread ends
ReadEof(s) ==
    /\ rstate[s] = "alive"
    /\ content[s] = <<>>
    /\ rstate' = [rstate EXCEPT ![s] = "dead"]
    /\ UNCHANGED <<sessVars, taskVars, mainVars, histVars, cfg, source, content,
                   queue, now, rd, obs, lifeVars, auxVars>>

\* time passes; the observer notes that the streams have been open and silent
\* for longer than output_timeout with nothing of them left to deliver, and
\* that a reader is alive later than timeout after the start
Tick ==
    /\ now < MaxTime
    /\ now' = now + 1
    /\ obs' = [obs EXCEPT
                 !.idle_due = @ \/ (/\ cfg.output_timeout # None
                                    /\ wpc[1] \in {"test", "get", "sample"}
                                    /\ \A s \in Streams : rstate[s] # "dead"
                                    /\ queue = <<>> /\ ~LineInHand(1)
                                    /\ now' > obs.quiet_since + cfg.output_timeout[1]),
                 !.total_due = @ \/ (/\ cfg.timeout # None
                                     /\ wpc[1] # "start"
                                     /\ AnyReaderAlive
                                     /\ now' > rd.start_time + cfg.timeout[1])]
    /\ UNCHANGED <<sessVars, taskVars, mainVars, histVars, cfg, source, content,
                   rstate, queue, rd, lifeVars, auxVars>>

\* ------------------------------------------------------------- Spec
\* the multiplexer's variables where they play no part
ReaderIdle ==
    /\ cfg = [timeout |-> None, output_timeout |-> None]
    /\ source = [s \in {"stdout", "stderr"} |-> <<>>]
    /\ content = [s \in {"stdout", "stderr"} |-> <<>>]
    /\ rstate = [s \in {"stdout", "stderr"} |-> "absent"]
    /\ queue = <<>>
    /\ now = 0
    /\ rd = [start_time |-> 0, timed_out |-> FALSE, timeout |-> None,
             output_timeout |-> None, now |-> 0, item |-> None]
    /\ obs = [quiet_since |-> 0, idle_ref |-> 0, idle_due |-> FALSE, total_due |-> FALSE,
              last_line |-> 0, steady |-> TRUE]

\* the caller's thread, idle
MainIdle ==
    /\ mpc = "idle"
    /\ mtask = 1
    /\ nwaits = 0
    /\ wft_raise = FALSE
    /\ wft_errors = <<>>
    /\ tasks_seen = {}
    /\ wft_tasks = {}
    /\ wft_todo = {}

\* inside the with block of a session constructed with auto_close=ac
InScope(ac) == [state |-> "open", auto_close |-> ac, exception |-> FALSE, log |-> <<>>]

\* the threads that take the session's lock: the caller's, and the worker of
\* a task
Main == [thread |-> "main", task |-> 0]
Worker(t) == [thread |-> "worker", task |-> t]
NoThread == [thread |-> "none", task |-> 0]

\* threading.Lock(), not acquired
Unlocked == [holder |-> NoThread, section |-> "", task |-> 0]

\* no single function is looked at
NoAux == opt = <<>> /\ mgr = <<>> /\ fs = <<>> /\ lock = Unlocked

\* nothing recorded yet
NoHistory ==
    /\ calls = <<>>
    /\ results = <<>>
    /\ spawned_in_call = {}
    /\ silent_due = {}
    /\ appended = {}
    /\ err_result = None
    /\ waits = <<>>
    /\ counts = [t \in TaskIds |-> [reg |-> IF kind[t] = "none" THEN 0 ELSE 1,
                                    unreg |-> 0, run |-> 0, raised |-> 0, cb |-> 0]]

\* a session without a task, the caller idle, no stream reader
NoTask ==
    /\ tasks = <<>>
    /\ silent_errors = <<>>
    /\ kind = [t \in TaskIds |-> "none"]
    /\ cpc = [t \in TaskIds |-> "none"]
    /\ parent = [t \in TaskIds |-> {}]
    /\ wpc = [t \in TaskIds |-> "unstarted"]
    /\ explicit_wait = [t \in TaskIds |-> FALSE]
    /\ timed_out = [t \in TaskIds |-> FALSE]
    /\ exit_code = [t \in TaskIds |-> None]
    /\ expected_exit_code = [t \in TaskIds |-> None]
    /\ exception = [t \in TaskIds |-> None]
    /\ MainIdle
    /\ ReaderIdle
    /\ NoHistory

\* BaseSession.__init__: no task yet, the caller idle
Init ==
    /\ NoTask
    /\ NoAux
    /\ \E ac \in BOOLEAN : scope = InScope(ac)

Next ==
    \/ \E k \in {"cmd", "thr"}, exp \in ExpectedCodes : MainExecute(k, exp)
    \/ \E t \in TaskIds, c \in ExitCodes : MuxFinished(t, c)
    \/ \E t \in TaskIds : MuxTimedOut(t)
    \/ \E t \in TaskIds : OnFinishedUnregister(t)
    \/ \E t \in TaskIds : OnTimeoutUnregister(t)
    \/ \E t \in TaskIds : OnTimeoutSet(t)
    \/ \E t \in TaskIds : ThrReturn(t)
    \/ \E t \in TaskIds : ThrRaise(t)
    \/ \E t \in TaskIds : ThrUnregister(t)
    \/ \E t \in TaskIds, k \in {"cmd", "thr"}, exp \in ExpectedCodes : CallbackSpawn(t, k, exp)
    \/ \E t \in TaskIds : CommandTaskInit(t)
    \/ \E t \in TaskIds : StartReader(t)
    \/ \E t \in TaskIds : StartThread(t)
    \/ \E t \in TaskIds : AssignThread(t)
    \/ \E t \in TaskIds : CallbackReturn(t)
    \/ \E t \in TaskIds, r \in BOOLEAN : MainWaitBegin(t, r)
    \/ MainWaitEnd
    \/ \E r \in BOOLEAN : WftBegin(r)
    \/ WftSnapshot
    \/ \E t \in TaskIds : WftWaitBegin(t)
    \/ WftJoin
    \/ WftCrash
    \/ WftClear
    \/ WftReturn
    \/ \E exc \in BOOLEAN : ExitBegin(exc)
    \/ ExitFinish

Spec == Init /\ [][Next]_vars

\* ---------------------------------------- StreamsReader._read (merge)
\* start_time = time.time(); the two deadlines
MuxStart(t) ==
    /\ wpc[t] = "start"
    /\ rd' = [rd EXCEPT !.start_time = now,
                        !.timeout = Deadline(cfg.timeout, now),
                        !.output_timeout = Deadline(cfg.output_timeout, now)]
    /\ obs' = IF cfg.output_timeout = None THEN obs
               ELSE [obs EXCEPT !.quiet_since = now, !.idle_ref = now]
    /\ wpc' = [wpc EXCEPT ![t] = "test"]
    /\ UNCHANGED <<sessVars, kind, cpc, parent, explicit_wait, timed_out, exit_code,
                   expected_exit_code, exception, mainVars, histVars,
                   cfg, source, content, rstate, queue, now, lifeVars, auxVars>>

\* while (stdout_reader and stdout_reader.is_alive()) or (stderr_reader ...)
MuxTest(t) ==
    /\ wpc[t] = "test"
    /\ wpc' = [wpc EXCEPT ![t] = IF AnyReaderAlive THEN "get" ELSE LoopExit(rd.timed_out)]
    /\ UNCHANGED <<sessVars, kind, cpc, parent, explicit_wait, timed_out, exit_code,
                   expected_exit_code, exception, mainVars, histVars, readVars, lifeVars, auxVars>>

\* line, callback = queue.get(True, 0.02): an item as soon as there is one,
\* Empty when the poll ends without
MuxGet(t) ==
    /\ wpc[t] = "get"
    /\ IF queue # <<>>
       THEN /\ rd' = [rd EXCEPT !.item = Some(Head(queue))]
            /\ queue' = Tail(queue)
       ELSE /\ rd' = [rd EXCEPT !.item = None]
            /\ queue' = queue
    /\ wpc' = [wpc EXCEPT ![t] = "sample"]
    /\ UNCHANGED <<sessVars, kind, cpc, parent, explicit_wait, timed_out, exit_code,
                   expected_exit_code, exception, mainVars, histVars,
                   cfg, source, content, rstate, now, obs, lifeVars, auxVars>>

\* the end of an iteration: if timeout is not None and now > timeout:
\* timed_out = True; break
EndOfIteration(t, r) ==
    IF TotalExceeded(r)
    THEN /\ rd' = [r EXCEPT !.timed_out = TRUE]
         /\ wpc' = [wpc EXCEPT ![t] = LoopExit(TRUE)]
    ELSE /\ rd' = r
         /\ wpc' = [wpc EXCEPT ![t] = "test"]

\* now = time.time(); without a line the idle check and the total check, with
\* a line output_timeout = now + self.output_timeout
MuxSample(t) ==
    /\ wpc[t] = "sample"
    /\ LET r == [rd EXCEPT !.now = now] IN
         IF r.item = None
         THEN /\ IF IdleExceeded(r)
                 THEN /\ rd' = [r EXCEPT !.timed_out = TRUE]
                      /\ wpc' = [wpc EXCEPT ![t] = LoopExit(TRUE)]
                 ELSE EndOfIteration(t, r)
              /\ obs' = obs
         ELSE /\ rd' = [r EXCEPT !.output_timeout = Deadline(cfg.output_timeout, now)]
              /\ wpc' = [wpc EXCEPT ![t] = "callback"]
              /\ obs' = IF cfg.output_timeout = None THEN obs
                        ELSE [obs EXCEPT !.idle_ref = now]
    /\ UNCHANGED <<sessVars, kind, cpc, parent, explicit_wait, timed_out, exit_code,
                   expected_exit_code, exception, mainVars, histVars,
                   cfg, source, content, rstate, queue, now, lifeVars, auxVars>>

\* a line that is given to no callback once the total deadline has passed
DeliverLineIfInTime(cs, it) == IF TotalExceeded(rd) THEN cs ELSE Append(cs, LineCall(it))

\* callback(line.rstrip()), whatever the clock says
DeliverLine(cs, it) == Append(cs, LineCall(it))

\* callback(line.rstrip()), then the total check
MuxCallback(t) ==
    /\ wpc[t] = "callback"
    /\ calls' = DeliverLine(calls, rd.item[1])
    /\ obs' = Noted(obs)
    /\ EndOfIteration(t, rd)
    /\ UNCHANGED <<sessVars, kind, cpc, parent, explicit_wait, timed_out, exit_code,
                   expected_exit_code, exception, mainVars,
                   results, spawned_in_call, silent_due, appended, err_result,
                   cfg, source, content, rstate, queue, now, lifeVars, auxVars>>

\* self.timeout_callback(): CommandTask._on_timeout is entered
MuxTimeoutCallback(t) ==
    /\ wpc[t] = "timeout_cb"
    /\ calls' = Append(calls, TimeoutCall)
    /\ wpc' = [wpc EXCEPT ![t] = "to_unreg"]
    /\ UNCHANGED <<sessVars, kind, cpc, parent, explicit_wait, timed_out, exit_code,
                   expected_exit_code, exception, mainVars,
                   results, spawned_in_call, silent_due, appended, err_result, readVars, lifeVars, auxVars>>

\* while not queue.empty(): line, callback = queue.get(False);
\* callback(line.rstrip())
MuxDrain(t) ==
    /\ wpc[t] = "drain"
    /\ ~QueueEmpty
    /\ calls' = Append(calls, LineCall(Head(queue)))
    /\ queue' = Tail(queue)
    /\ obs' = Noted(obs)
    /\ UNCHANGED <<sessVars, taskVars, mainVars,
                   results, spawned_in_call, silent_due, appended, err_result,
                   cfg, source, content, rstate, now, rd, lifeVars, auxVars>>

\* the queue is found empty: on to stdout_reader.join(), stderr_reader.join()
MuxDrained(t) ==
    /\ wpc[t] = "drain"
    /\ QueueEmpty
    /\ wpc' = [wpc EXCEPT ![t] = "join"]
    /\ UNCHANGED <<sessVars, kind, cpc, parent, explicit_wait, timed_out, exit_code,
                   expected_exit_code, exception, mainVars, histVars, readVars, lifeVars, auxVars>>

\* a last test that looks at the clock again
ReportsFinishedInTime ==
    ~rd.timed_out /\ ~(rd.timeout # None /\ now > rd.timeout[1])

\* if not timed_out, after the joins: the flag of the loop, nothing else
ReportsFinished == ~rd.timed_out

\* the joins return when no reader is alive; if not timed_out:
\* self.finished_callback(), which is LocalExec._on_finished /
\* SshExec._on_finished: the exit status c is read unless the task timed out
MuxFinishedCallback(t, c) ==
    /\ wpc[t] = "join"
    /\ ~AnyReaderAlive
    /\ IF ReportsFinished
       THEN /\ calls' = Append(calls, FinishedCall)
            /\ exit_code' = [exit_code EXCEPT ![t] = IF timed_out[t] THEN @ ELSE Some(c)]
            /\ wpc' = [wpc EXCEPT ![t] = "fin_unreg"]
       ELSE /\ calls' = calls
            /\ exit_code' = exit_code
            /\ wpc' = [wpc EXCEPT ![t] = "dead"]
    /\ UNCHANGED <<sessVars, kind, cpc, parent, explicit_wait, timed_out,
                   expected_exit_code, exception, mainVars,
                   results, spawned_in_call, silent_due, appended, err_result, readVars, lifeVars, auxVars>>

\* ------------------------------------------------------- SpecReader
\* LocalExec.__init__ has returned: the task is registered, Popen has
\* created the streams (stderr absent when combined with stdout), the reader
\* threads and the merge thread are started
InitReader ==
    /\ tasks = <<1>>
    /\ silent_errors = <<>>
    /\ kind = [t \in TaskIds |-> IF t = 1 THEN "cmd" ELSE "none"]
    /\ cpc = [t \in TaskIds |-> IF t = 1 THEN "built" ELSE "none"]
    /\ parent = [t \in TaskIds |-> {}]
    /\ wpc = [t \in TaskIds |-> IF t = 1 THEN "start" ELSE "unstarted"]
    /\ explicit_wait = [t \in TaskIds |-> FALSE]
    /\ timed_out = [t \in TaskIds |-> FALSE]
    /\ exit_code = [t \in TaskIds |-> None]
    /\ expected_exit_code = [t \in TaskIds |-> IF t = 1 THEN Some(0) ELSE None]
    /\ exception = [t \in TaskIds |-> None]
    /\ MainIdle
    /\ NoHistory
    /\ NoAux
    /\ scope = InScope(TRUE)
    /\ \E T \in Timeouts, ot \in Timeouts : cfg = [timeout |-> T, output_timeout |-> ot]
    /\ \E n \in 0..MaxLines, m \in 0..MaxLines, out \in {"absent", "alive"}, err \in {"absent", "alive"} :
         /\ source = [s \in Streams |-> IF s = "stdout" THEN StreamLines(s, n)
                                        ELSE IF err = "alive" THEN StreamLines(s, m)
                                        ELSE <<>>]
         /\ (out = "absent" => n = 0)
         /\ (err = "absent" => m = 0)
         /\ rstate = [s \in Streams |-> IF s = "stdout" THEN out ELSE err]
    /\ content = source
    /\ queue = <<>>
    /\ now = 0
    /\ rd = [start_time |-> 0, timed_out |-> FALSE, timeout |-> None,
             output_timeout |-> None, now |-> 0, item |-> None]
    /\ obs = [quiet_since |-> 0, idle_ref |-> 0, idle_due |-> FALSE, total_due |-> FALSE,
              last_line |-> 0, steady |-> TRUE]

NextReader ==
    \/ \E s \in Streams : ReadLine(s)
    \/ \E s \in Streams : ReadEof(s)
    \/ Tick
    \/ \E t \in TaskIds : MuxStart(t)
    \/ \E t \in TaskIds : MuxTest(t)
    \/ \E t \in TaskIds : MuxGet(t)
    \/ \E t \in TaskIds : MuxSample(t)
    \/ \E t \in TaskIds : MuxCallback(t)
    \/ \E t \in TaskIds : MuxTimeoutCallback(t)
    \/ \E t \in TaskIds : MuxDrain(t)
    \/ \E t \in TaskIds : MuxDrained(t)
    \/ \E t \in TaskIds, c \in ExitCodes : MuxFinishedCallback(t, c)
    \/ \E t \in TaskIds : OnFinishedUnregister(t)
    \/ \E t \in TaskIds : OnTimeoutUnregister(t)
    \/ \E t \in TaskIds : OnTimeoutSet(t)
    \/ \E t \in TaskIds : CallbackReturn(t)

SpecReader == InitReader /\ [][NextReader]_vars

\* -------------------------------------------------------- SpecError
\* CommandTask._set_exit_code(c)
SetExitCode(t, c) ==
    /\ kind[t] = "cmd"
    /\ exit_code' = [exit_code EXCEPT ![t] = Some(c)]
    /\ UNCHANGED <<sessVars, kind, cpc, parent, wpc, explicit_wait, timed_out,
                   expected_exit_code, exception, mainVars, readVars, histVars, lifeVars, auxVars>>

\* cmd._on_timeout() called directly, as the tests do: _unregister(), then
\* __timed_out = True
CallOnTimeout(t) ==
    /\ kind[t] = "cmd"
    /\ ~timed_out[t]
    /\ UnregisterTask(t)
    /\ counts' = Bump(counts, t, "unreg")
    /\ timed_out' = [timed_out EXCEPT ![t] = TRUE]
    /\ UNCHANGED <<kind, cpc, parent, wpc, explicit_wait, exit_code,
                   expected_exit_code, exception, mainVars, readVars,
                   calls, results, spawned_in_call, silent_due, err_result,
                   waits, scope, auxVars>>

\* task._unregister() called directly, as the tests call _unregister_task
CallUnregister(t) ==
    /\ kind[t] = "cmd"
    /\ counts[t].unreg < MaxUnregs
    /\ UnregisterTask(t)
    /\ counts' = Bump(counts, t, "unreg")
    /\ UNCHANGED <<taskVars, mainVars, readVars,
                   calls, results, spawned_in_call, silent_due, err_result,
                   waits, scope, auxVars>>

\* cmd.error() is called; the history keeps the fields it was called on and
\* what it returned
CallError(t) ==
    /\ kind[t] = "cmd"
    /\ err_result' = Some([timed_out |-> timed_out[t],
                           expected |-> expected_exit_code[t],
                           observed |-> exit_code[t],
                           result |-> CommandTaskError(t)])
    /\ UNCHANGED <<sessVars, taskVars, mainVars, readVars,
                   calls, results, spawned_in_call, silent_due, appended, lifeVars, auxVars>>

\* a CommandTask constructed with expected_exit_code=exp, not started
InitError ==
    /\ tasks = <<1>>
    /\ silent_errors = <<>>
    /\ kind = [t \in TaskIds |-> IF t = 1 THEN "cmd" ELSE "none"]
    /\ cpc = [t \in TaskIds |-> IF t = 1 THEN "initialised" ELSE "none"]
    /\ parent = [t \in TaskIds |-> {}]
    /\ wpc = [t \in TaskIds |-> "unstarted"]
    /\ explicit_wait = [t \in TaskIds |-> FALSE]
    /\ timed_out = [t \in TaskIds |-> FALSE]
    /\ exit_code = [t \in TaskIds |-> None]
    /\ \E exp \in {None} \cup {Some(c) : c \in 0..MaxCode} :
         expected_exit_code = [t \in TaskIds |-> IF t = 1 THEN exp ELSE None]
    /\ exception = [t \in TaskIds |-> None]
    /\ MainIdle
    /\ ReaderIdle
    /\ NoHistory
    /\ NoAux
    /\ scope = InScope(TRUE)

NextError ==
    \/ \E t \in TaskIds, c \in 0..MaxCode : SetExitCode(t, c)
    \/ \E t \in TaskIds : CallOnTimeout(t)
    \/ \E t \in TaskIds : CallUnregister(t)
    \/ \E t \in TaskIds : CallError(t)

SpecError == InitError /\ [][NextError]_vars

\* ------------------------------------------------------ SpecOptions
\* a callable given for a constructor argument is known by the argument's
\* name; None when the argument is left out
Given(name, given) == IF given THEN Some(name) ELSE None

\* "on_x = x_callback" when the deprecated x_callback is given
Alias(on_x, x_callback) == IF x_callback # None THEN x_callback ELSE on_x

\* combine_stderr left as None: not stderr_callback
DefaultCombine(a) == a.stderr_callback = None

\* CommandTask.__init__, its handling of the stream and callback arguments:
\* self._combine_stderr, and the callbacks kept after the deprecated aliases
\* were looked at
CommandTaskOptions ==
    /\ opt.pc = "args"
    /\ opt' = [opt EXCEPT
                 !.pc = "kept",
                 !.combine_stderr = IF opt.args.combine_stderr = None
                                    THEN DefaultCombine(opt.args)
                                    ELSE opt.args.combine_stderr[1],
                 !.finished = Alias(opt.args.on_finished, opt.args.finished_callback),
                 !.stdout = Alias(opt.args.on_stdout, opt.args.stdout_callback),
                 !.stderr = Alias(opt.args.on_stderr, opt.args.stderr_callback)]
    /\ UNCHANGED <<sessVars, taskVars, mainVars, readVars, histVars, lifeVars, mgr, fs, lock>>

\* CommandTask.__init__ is called with some of combine_stderr, on_finished,
\* on_stdout, on_stderr and the deprecated finished_callback, stdout_callback,
\* stderr_callback
InitOptions ==
    /\ NoTask
    /\ scope = InScope(TRUE)
    /\ mgr = <<>>
    /\ fs = <<>>
    /\ lock = Unlocked
    /\ \E c \in {None, Some(TRUE), Some(FALSE)}, f, o, e, df, do, de \in BOOLEAN :
         opt = [pc |-> "args",
                args |-> [combine_stderr |-> c,
                          on_finished |-> Given("on_finished", f),
                          on_stdout |-> Given("on_stdout", o),
                          on_stderr |-> Given("on_stderr", e),
                          finished_callback |-> Given("finished_callback", df),
                          stdout_callback |-> Given("stdout_callback", do),
                          stderr_callback |-> Given("stderr_callback", de)],
                combine_stderr |-> FALSE,
                finished |-> None,
                stdout |-> None,
                stderr |-> None]

NextOptions == CommandTaskOptions

SpecOptions == InitOptions /\ [][NextOptions]_vars

\* ------------------------------------------------------ SpecManager
\* the member sessions a SessionManager is tried with
SessionIds == {1, 2}

\* keys and values offered to the manager: two strings and an int as keys,
\* the sessions and a str as values
StrKeys == {[isa |-> "str", name |-> "a"], [isa |-> "str", name |-> "b"]}
AnyKeys == StrKeys \cup {[isa |-> "int", name |-> "1"]}
SessionValues == {[isa |-> "BaseSession", id |-> s] : s \in SessionIds}
AnyValues == SessionValues \cup {[isa |-> "str", id |-> 0]}

\* the keys of an ordered dict held as a sequence of [key, value]
DictKeys(d) == {d[i].key : i \in 1..Len(d)}

\* an ordered dict that appends on every assignment
DictAppend(d, k, v) == Append(d, [key |-> k, value |-> v])

\* OrderedDict.__setitem__: a new key goes to the end, a known key keeps its
\* place and gets the new value
DictSet(d, k, v) ==
    IF k \in DictKeys(d)
    THEN [i \in 1..Len(d) |-> IF d[i].key = k THEN [key |-> k, value |-> v] ELSE d[i]]
    ELSE Append(d, [key |-> k, value |-> v])

\* del d[k], for a key that is there
DictDel(d, k) == SelectSeq(d, LAMBDA e : e.key # k)

\* what an operation on the manager leaves in mgr.last
Done(op, k, v, raised) == [op |-> op, key |-> k, value |-> v, raised |-> raised, log |-> <<>>]

\* a check that looks at the value only
AcceptsAnyKey(k, v) == v.isa = "BaseSession"

\* the two isinstance tests of SessionManager.__setitem__
Accepts(k, v) == k.isa = "str" /\ v.isa = "BaseSession"

\* SessionManager.__setitem__(k, v): TypeError unless k is a str and v a
\* BaseSession
SetItemOn(m, k, v, op) ==
    IF ~Accepts(k, v)
    THEN [m EXCEPT !.last = Done(op, k, v, "TypeError")]
    ELSE [m EXCEPT !.registry = DictSet(m.registry, k, v),
                   !.last = Done(op, k, v, "none")]

\* manager[k] = v
SetItem(k, v) ==
    /\ mgr.pc = "open"
    /\ mgr' = SetItemOn(mgr, k, v, "setitem")
    /\ UNCHANGED <<sessVars, taskVars, mainVars, readVars, histVars, lifeVars, opt, fs, lock>>

\* manager.k = v: SessionManager.__setattr__
SetAttr(k, v) ==
    /\ mgr.pc = "open"
    /\ mgr' = IF v.isa = "BaseSession"
              THEN SetItemOn(mgr, k, v, "setattr")
              ELSE [mgr EXCEPT !.attrs = @ \cup {k}, !.last = Done("setattr", k, v, "none")]
    /\ UNCHANGED <<sessVars, taskVars, mainVars, readVars, histVars, lifeVars, opt, fs, lock>>

\* del manager.k: SessionManager.__delattr__; without an entry k,
\* OrderedDict.__delattr__ removes the attribute or raises AttributeError
DelAttr(k) ==
    /\ mgr.pc = "open"
    /\ mgr' = IF k \in DictKeys(mgr.registry)
              THEN [mgr EXCEPT !.registry = DictDel(mgr.registry, k),
                               !.last = Done("delattr", k, [isa |-> "str", id |-> 0], "none")]
              ELSE IF k \in mgr.attrs
              THEN [mgr EXCEPT !.attrs = @ \ {k},
                               !.last = Done("delattr", k, [isa |-> "str", id |-> 0], "none")]
              ELSE [mgr EXCEPT !.last = Done("delattr", k, [isa |-> "str", id |-> 0],
                                             "AttributeError")]
    /\ UNCHANGED <<sessVars, taskVars, mainVars, readVars, histVars, lifeVars, opt, fs, lock>>

\* an event of an aggregate operation: what was called on which session
Event(op, s) == [op |-> op, session |-> s]

\* SessionManager.wait_for_tasks, its for loop over self.values():
\* errs = session.wait_for_tasks(raise_if_error=False); errors.extend(errs).
\* A member's call returns the errors the session holds and leaves none
\* behind, or, for the sessions of cr, ends in the AttributeError of a task
\* that a callback is constructing (WftCrash), which ends the loop.
RECURSIVE WaitAll(_, _, _)
WaitAll(d, st, cr) ==
    IF d = <<>> THEN st
    ELSE LET s == Head(d).value.id
             called == [st EXCEPT !.log = Append(@, Event("wait_for_tasks", s)),
                                  !.sessions[s].waited = @ + 1]
         IN  IF s \in cr
             THEN [called EXCEPT !.raised = "AttributeError"]
             ELSE WaitAll(Tail(d), [called EXCEPT !.errors = @ \o st.sessions[s].errors,
                                                  !.sessions[s].errors = <<>>], cr)

\* for session in self.values(): session.close(), for every session or for
\* those with auto_close only
RECURSIVE CloseAll(_, _, _)
CloseAll(d, st, auto_only) ==
    IF d = <<>> THEN st
    ELSE LET s == Head(d).value.id IN
         IF auto_only /\ ~st.sessions[s].auto_close
         THEN CloseAll(Tail(d), st, auto_only)
         ELSE CloseAll(Tail(d), [st EXCEPT !.log = Append(@, Event("close", s)),
                                           !.sessions[s].closed = @ + 1], auto_only)

\* the locals an aggregate operation starts with
Start == [sessions |-> mgr.sessions, errors |-> <<>>, log |-> <<>>, raised |-> "none"]

\* the manager after an aggregate operation that ended in st
After(op, r, st, raised, pc) ==
    [mgr EXCEPT !.sessions = st.sessions,
                !.pc = pc,
                !.last = [op |-> op, key |-> [isa |-> "str", name |-> ""],
                          value |-> [isa |-> "str", id |-> 0],
                          raised |-> raised, log |-> st.log],
                !.result = [raise_if_error |-> r, errors |-> st.errors,
                            before |-> mgr.sessions]]

\* SessionManager.wait_for_tasks(raise_if_error=r), the members of cr being
\* waited while a callback constructs a task
MgrWaitForTasks(r, cr) ==
    /\ mgr.pc = "open"
    /\ LET st == WaitAll(mgr.registry, Start, cr) IN
       mgr' = After("wait_for_tasks", r, st,
                    IF st.raised # "none" THEN st.raised
                    ELSE IF r /\ st.errors # <<>> THEN "TaskErrors" ELSE "none",
                    "waited")
    /\ UNCHANGED <<sessVars, taskVars, mainVars, readVars, histVars, lifeVars, opt, fs, lock>>

\* SessionManager.close()
MgrClose ==
    /\ mgr.pc = "open"
    /\ mgr' = After("close", FALSE, CloseAll(mgr.registry, Start, FALSE), "none", "closed")
    /\ UNCHANGED <<sessVars, taskVars, mainVars, readVars, histVars, lifeVars, opt, fs, lock>>

\* SessionManager.__exit__(type, value, traceback), the block left with an
\* exception (exc) or without: self.wait_for_tasks(raise_if_error=False),
\* close() of the sessions with auto_close, then the errors are raised, or
\* printed, or there is none
MgrExit(exc, cr) ==
    /\ mgr.pc = "open"
    /\ LET waited == WaitAll(mgr.registry, Start, cr)
           st == IF waited.raised # "none" THEN waited
                 ELSE CloseAll(mgr.registry, waited, TRUE)
       IN  mgr' = [After("exit", FALSE, st,
                         IF st.raised # "none" THEN st.raised
                         ELSE IF st.errors # <<>> /\ ~exc THEN "TaskErrors"
                         ELSE IF exc THEN "original" ELSE "none",
                         "exited")
                   EXCEPT !.exception = exc]
    /\ UNCHANGED <<sessVars, taskVars, mainVars, readVars, histVars, lifeVars, opt, fs, lock>>

\* the errors a member session can hold when it is waited
SessionErrors(s) == {<<>>, <<[kind |-> "TaskError", session |-> s]>>}

\* SessionManager(): no entry, no attribute; the sessions that will be
\* offered to it exist, each with its auto_close and the errors its tasks
\* will have left
InitManager ==
    /\ NoTask
    /\ scope = InScope(TRUE)
    /\ opt = <<>>
    /\ fs = <<>>
    /\ lock = Unlocked
    /\ \E ac \in [SessionIds -> BOOLEAN] :
       \E er \in [SessionIds -> UNION {SessionErrors(s) : s \in SessionIds}] :
         /\ \A s \in SessionIds : er[s] \in SessionErrors(s)
         /\ mgr = [pc |-> "open",
                   registry |-> <<>>,
                   attrs |-> {},
                   sessions |-> [s \in SessionIds |->
                                   [auto_close |-> ac[s], errors |-> er[s],
                                    waited |-> 0, closed |-> 0]],
                   exception |-> FALSE,
                   last |-> Done("init", [isa |-> "str", name |-> ""],
                                 [isa |-> "str", id |-> 0], "none"),
                   result |-> [raise_if_error |-> FALSE, errors |-> <<>>,
                               before |-> [s \in SessionIds |->
                                             [auto_close |-> ac[s], errors |-> er[s],
                                              waited |-> 0, closed |-> 0]]]]

NextManager ==
    \/ \E k \in AnyKeys, v \in AnyValues : SetItem(k, v)
    \/ \E k \in StrKeys, v \in AnyValues : SetAttr(k, v)
    \/ \E k \in StrKeys : DelAttr(k)
    \/ \E r \in BOOLEAN, cr \in SUBSET SessionIds : MgrWaitForTasks(r, cr)
    \/ MgrClose
    \/ \E exc \in BOOLEAN, cr \in SUBSET SessionIds : MgrExit(exc, cr)

SpecManager == InitManager /\ [][NextManager]_vars

\* --------------------------------------------------------- SpecCopy
\* the names of a directory, as a list (listdir gives them in some order)
RECURSIVE SetToSeq(_)
SetToSeq(S) ==
    IF S = {} THEN <<>>
    ELSE LET x == CHOOSE x \in S : TRUE IN <<x>> \o SetToSeq(S \ {x})

\* posixpath.join of a path and a relative path, paths being lists of names
Join(p, q) == p \o q

\* the names below top that are in the set of paths P
NamesIn(P, top) ==
    {p[Len(p)] : p \in {q \in P : Len(q) = Len(top) + 1 /\ SubSeq(q, 1, Len(top)) = top}}

\* SshSession.walk(top), topdown: top with its directories and its other
\* names, then the walk of each directory
RECURSIVE SshWalk(_, _)
RECURSIVE SshWalkEach(_, _, _)
SshWalk(tree, top) ==
    LET dirs == SetToSeq(NamesIn(tree.dirs, top))
        nondirs == SetToSeq(NamesIn(DOMAIN tree.files, top))
    IN  <<[root |-> top, dirs |-> dirs, files |-> nondirs]>> \o SshWalkEach(tree, top, dirs)
SshWalkEach(tree, top, names) ==
    IF names = <<>> THEN <<>>
    ELSE SshWalk(tree, Join(top, <<Head(names)>>)) \o SshWalkEach(tree, top, Tail(names))

\* src_session.walk(src): the generator of SshSession.walk; LocalSession.walk
\* calls os.walk and returns nothing
WalkOf(session, tree, top) ==
    IF session = "LocalSession" THEN None ELSE Some(SshWalk(tree, top))

\* fr.read(chunk_size) on what is left of the file
ReadChunk(rest, n) == SubSeq(rest, 1, IF Len(rest) < n THEN Len(rest) ELSE n)
AfterChunk(rest, n) == SubSeq(rest, (IF Len(rest) < n THEN Len(rest) ELSE n) + 1, Len(rest))

\* scontext = root[src_len:].lstrip('/')
SContext == SubSeq(fs.root, Len(fs.src) + 1, Len(fs.root))

\* dcontext = posixpath.join(dest, scontext)
DContext == Join(fs.dest, SContext)

\* copy_dir, its first statement: dest_session.mkdir(dest)
CopyDirBegin ==
    /\ fs.pc = "start"
    /\ fs' = [fs EXCEPT !.pc = "walk",
                        !.dtree.dirs = @ \cup {fs.dest},
                        !.log = Append(@, [op |-> "mkdir", path |-> fs.dest])]
    /\ UNCHANGED <<sessVars, taskVars, mainVars, readVars, histVars, lifeVars, opt, mgr, lock>>

\* for root, dirs, files in src_session.walk(src): the call, and iter() of
\* what it returns, a TypeError for None
CopyDirWalk ==
    /\ fs.pc = "walk"
    /\ LET w == WalkOf(fs.src_session, fs.stree, fs.src) IN
       fs' = IF w = None
             THEN [fs EXCEPT !.pc = "raised", !.raised = "TypeError"]
             ELSE [fs EXCEPT !.pc = "next", !.pending = w[1]]
    /\ UNCHANGED <<sessVars, taskVars, mainVars, readVars, histVars, lifeVars, opt, mgr, lock>>

\* the for statement takes the next (root, dirs, files), or the walk is over
CopyDirNext ==
    /\ \/ fs.pc = "next"
       \/ fs.pc = "body" /\ fs.dirs = <<>> /\ fs.files = <<>>
    /\ fs' = IF fs.pending = <<>>
             THEN [fs EXCEPT !.pc = "done"]
             ELSE [fs EXCEPT !.pc = "body",
                             !.root = Head(fs.pending).root,
                             !.dirs = Head(fs.pending).dirs,
                             !.files = Head(fs.pending).files,
                             !.pending = Tail(fs.pending)]
    /\ UNCHANGED <<sessVars, taskVars, mainVars, readVars, histVars, lifeVars, opt, mgr, lock>>

\* for dir in dirs: dest_session.mkdir(posixpath.join(dcontext, dir))
CopyDirMkdir ==
    /\ fs.pc = "body"
    /\ fs.dirs # <<>>
    /\ LET path == Join(DContext, <<Head(fs.dirs)>>) IN
       fs' = [fs EXCEPT !.dirs = Tail(@),
                        !.dtree.dirs = @ \cup {path},
                        !.log = Append(@, [op |-> "mkdir", path |-> path])]
    /\ UNCHANGED <<sessVars, taskVars, mainVars, readVars, histVars, lifeVars, opt, mgr, lock>>

\* for file in files: copy_file(src_session, spath, dest_session, path): the
\* two open() and the first read
CopyFileOpen ==
    /\ fs.pc = "body"
    /\ fs.dirs = <<>>
    /\ fs.files # <<>>
    /\ LET path == Join(DContext, <<Head(fs.files)>>)
           spath == Join(Join(fs.src, SContext), <<Head(fs.files)>>)
       IN  fs' = [fs EXCEPT !.pc = "copy",
                            !.fw = path,
                            !.dtree.files = (path :> <<>>) @@ @,
                            !.data = ReadChunk(fs.stree.files[spath], fs.chunk_size),
                            !.rest = AfterChunk(fs.stree.files[spath], fs.chunk_size),
                            !.log = Append(@, [op |-> "open", path |-> path])]
    /\ UNCHANGED <<sessVars, taskVars, mainVars, readVars, histVars, lifeVars, opt, mgr, lock>>

\* while data: fw.write(data); data = fr.read(chunk_size)
CopyFileChunk ==
    /\ fs.pc = "copy"
    /\ fs.data # <<>>
    /\ fs' = [fs EXCEPT !.dtree.files[fs.fw] = @ \o fs.data,
                        !.data = ReadChunk(fs.rest, fs.chunk_size),
                        !.rest = AfterChunk(fs.rest, fs.chunk_size)]
    /\ UNCHANGED <<sessVars, taskVars, mainVars, readVars, histVars, lifeVars, opt, mgr, lock>>

\* data is empty: the two files are closed, copy_file returns
CopyFileClose ==
    /\ fs.pc = "copy"
    /\ fs.data = <<>>
    /\ fs' = [fs EXCEPT !.pc = "body", !.files = Tail(@)]
    /\ UNCHANGED <<sessVars, taskVars, mainVars, readVars, histVars, lifeVars, opt, mgr, lock>>

\* the bytes a file is tried with
RECURSIVE BytesUpTo(_)
BytesUpTo(n) ==
    IF n = 0 THEN {<<>>}
    ELSE BytesUpTo(n - 1) \cup {Append(b, x) : b \in {c \in BytesUpTo(n - 1) : Len(c) = n - 1},
                                             x \in {0, 1}}

\* s.copy_dir("src", dest_session, "dest") is called: src holds one
\* directory with one file, dest does not exist, its parent does
InitCopy ==
    /\ NoTask
    /\ scope = InScope(TRUE)
    /\ opt = <<>>
    /\ mgr = <<>>
    /\ lock = Unlocked
    /\ \E s, d \in {"LocalSession", "SshSession"}, n \in 1..MaxChunk, b \in BytesUpTo(MaxBytes) :
         fs = [pc |-> "start",
               src_session |-> s,
               dest_session |-> d,
               chunk_size |-> n,
               src |-> <<"src">>,
               dest |-> <<"dest">>,
               stree |-> [dirs |-> {<<"src">>, <<"src", "sub">>},
                          files |-> (<<"src", "sub", "file">> :> b)],
               dtree |-> [dirs |-> {}, files |-> <<>>],
               pending |-> <<>>,
               root |-> <<>>,
               dirs |-> <<>>,
               files |-> <<>>,
               fw |-> <<>>,
               data |-> <<>>,
               rest |-> <<>>,
               log |-> <<>>,
               raised |-> "none"]

NextCopy ==
    \/ CopyDirBegin
    \/ CopyDirWalk
    \/ CopyDirNext
    \/ CopyDirMkdir
    \/ CopyFileOpen
    \/ CopyFileChunk
    \/ CopyFileClose

SpecCopy == InitCopy /\ [][NextCopy]_vars

\* the merge thread and the worker's callbacks run and return
MergeThreadRuns ==
    WF_vars(\E t \in TaskIds :
               \/ MuxStart(t) \/ MuxTest(t) \/ MuxGet(t) \/ MuxSample(t)
               \/ MuxCallback(t) \/ MuxTimeoutCallback(t) \/ MuxDrain(t)
               \/ MuxDrained(t) \/ (\E c \in ExitCodes : MuxFinishedCallback(t, c))
               \/ OnFinishedUnregister(t) \/ OnTimeoutUnregister(t)
               \/ OnTimeoutSet(t) \/ CallbackReturn(t))

\* a reader thread takes the line its stream holds; nothing makes the command
\* close a stream (no fairness for ReadEof)
ReaderThreadsRun == WF_vars(\E s \in Streams : ReadLine(s))

\* time passes
ClockRuns == WF_vars(Tick)

\* the command writes at most MaxFairLines lines to each stream
InitFairReader == InitReader /\ \A s \in Streams : Len(source[s]) <= MaxFairLines

FairReader ==
    /\ InitFairReader /\ [][NextReader]_vars
    /\ MergeThreadRuns /\ ReaderThreadsRun /\ ClockRuns

\* --------------------------------------------------------- SpecLock
\* the with self._lock blocks of BaseSession, by the statement that needs
\* them: "register" (_register_task), "unregister" (_unregister_task),
\* "snapshot", "clear" and "final" (the three blocks of wait_for_tasks)

\* thread th stands before the with block of section sec (for "register",
\* of the task it is about to construct)
Before(th, sec) ==
    \/ th = Main /\ sec = "snapshot" /\ mpc = "wft_snap"
    \/ th = Main /\ sec = "clear" /\ mpc = "wft_clear"
    \/ th = Main /\ sec = "final" /\ mpc = "wft_final"
    \/ th = Main /\ sec = "register" /\ mpc = "idle" /\ \E u \in TaskIds : kind[u] = "none"
    \/ /\ th.thread = "worker" /\ sec = "unregister"
       /\ th.task \in TaskIds /\ wpc[th.task] = "fin_unreg"
    \/ /\ th.thread = "worker" /\ sec = "register"
       /\ th.task \in TaskIds /\ InCallback(th.task)
       /\ \A c \in TaskIds : parent[c] # {th.task}
       /\ \E u \in TaskIds : kind[u] = "none"

\* the statements of the block that the lock is held for have been executed
SectionDone ==
    \/ lock.section = "snapshot" /\ mpc # "wft_snap"
    \/ lock.section = "clear" /\ mpc # "wft_clear"
    \/ lock.section = "final" /\ mpc # "wft_final"
    \/ lock.section = "unregister" /\ wpc[lock.holder.task] # "fin_unreg"
    \/ lock.section = "register" /\ kind[lock.task] # "none"

\* a with block that would end after the for loop of wait_for_tasks only
EndOfBlockAfterLoop == SectionDone /\ (lock.holder = Main => mpc \notin {"wft_loop", "wft_join"})

\* the end of the with block is reached when its statements are executed
EndOfBlock == SectionDone

\* thread th is inside the with block of section sec, its statements to do
InSection(th, sec) == lock.holder = th /\ lock.section = sec /\ ~SectionDone

\* thread th is outside every with block
Outside(th) == lock.holder # th

\* with self._lock: __enter__, the lock being free
Acquire(th, sec) ==
    /\ lock = Unlocked
    /\ Before(th, sec)
    /\ lock' = [holder |-> th, section |-> sec,
                task |-> IF sec = "register" THEN NextId ELSE 0]
    /\ UNCHANGED <<sessVars, taskVars, mainVars, readVars, histVars, lifeVars, opt, mgr, fs>>

\* with self._lock: __exit__
Release ==
    /\ lock.holder # NoThread
    /\ EndOfBlock
    /\ lock' = Unlocked
    /\ UNCHANGED <<sessVars, taskVars, mainVars, readVars, histVars, lifeVars, opt, mgr, fs>>

\* session.execute(command) by the caller, _register_task under the lock
LockedMainExecute(exp) == InSection(Main, "register") /\ MainExecute("cmd", exp)

\* Task.__init__ in a finished callback, _register_task under the lock
LockedCallbackSpawn(t, exp) == InSection(Worker(t), "register") /\ CallbackSpawn(t, "cmd", exp)

\* the rest of the constructor, on the thread of the callback
UnlockedCommandTaskInit(t) ==
    (\A p \in parent[t] : Outside(Worker(p))) /\ CommandTaskInit(t)
UnlockedStartReader(t) ==
    (\A p \in parent[t] : Outside(Worker(p))) /\ StartReader(t)

\* the worker of task t: the command ends, _unregister_task under the lock,
\* the user's callback returns
UnlockedMuxFinished(t, c) == Outside(Worker(t)) /\ MuxFinished(t, c)
LockedUnregister(t) == InSection(Worker(t), "unregister") /\ OnFinishedUnregister(t)
UnlockedCallbackReturn(t) == Outside(Worker(t)) /\ CallbackReturn(t)

\* wait_for_tasks on the caller's thread
UnlockedWftBegin(r) == Outside(Main) /\ WftBegin(r)
LockedWftSnapshot == InSection(Main, "snapshot") /\ WftSnapshot
UnlockedWftWaitBegin(t) == Outside(Main) /\ WftWaitBegin(t)
UnlockedWftJoin == Outside(Main) /\ WftJoin
UnlockedWftCrash == Outside(Main) /\ WftCrash
LockedWftClear == InSection(Main, "clear") /\ WftClear
LockedWftReturn == InSection(Main, "final") /\ WftReturn

InitLock == Init

NextLock ==
    \/ \E t \in TaskIds, sec \in {"register", "unregister"} : Acquire(Worker(t), sec)
    \/ \E sec \in {"register", "snapshot", "clear", "final"} : Acquire(Main, sec)
    \/ Release
    \/ \E exp \in ExpectedCodes : LockedMainExecute(exp)
    \/ \E t \in TaskIds, exp \in ExpectedCodes : LockedCallbackSpawn(t, exp)
    \/ \E t \in TaskIds : UnlockedCommandTaskInit(t)
    \/ \E t \in TaskIds : UnlockedStartReader(t)
    \/ \E t \in TaskIds, c \in ExitCodes : UnlockedMuxFinished(t, c)
    \/ \E t \in TaskIds : LockedUnregister(t)
    \/ \E t \in TaskIds : UnlockedCallbackReturn(t)
    \/ \E r \in BOOLEAN : UnlockedWftBegin(r)
    \/ LockedWftSnapshot
    \/ \E t \in TaskIds : UnlockedWftWaitBegin(t)
    \/ UnlockedWftJoin
    \/ UnlockedWftCrash
    \/ LockedWftClear
    \/ LockedWftReturn

SpecLock == InitLock /\ [][NextLock]_vars

\* --------------------------------------------------------- SpecSpawn
\* command tasks whose constructor may fail after Task.__init__: Popen
\* (local.py) or transport.open_session() / exec_command (ssh.py) raises, no
\* handler is around it, and self._reader.start(...) is never reached

\* session.execute(command) on the caller's thread, the transport raising:
\* the task is registered, its reader has no thread, the exception goes to
\* the caller
MainExecuteFails(exp) ==
    /\ mpc = "idle"
    /\ Construct(NextId, "cmd", exp, {})
    /\ cpc' = [cpc EXCEPT ![NextId] = "failed"]
    /\ exit_code' = [exit_code EXCEPT ![NextId] = None]
    /\ timed_out' = [timed_out EXCEPT ![NextId] = FALSE]
    /\ UNCHANGED <<silent_errors, wpc, explicit_wait, exception,
                   mainVars, readVars, histVars, waits, scope, auxVars>>

\* the same in a finished callback: the exception leaves the callback and
\* ends the worker thread that ran it
SpawnFails(t) ==
    /\ kind[t] = "cmd" /\ cpc[t] = "initialised"
    /\ cpc' = [cpc EXCEPT ![t] = "failed"]
    /\ wpc' = [p \in TaskIds |-> IF p \in parent[t] THEN "dead" ELSE wpc[p]]
    /\ UNCHANGED <<sessVars, kind, parent, explicit_wait, timed_out, exit_code,
                   expected_exit_code, exception, mainVars, readVars, histVars, lifeVars, auxVars>>

InitSpawn == Init

NextSpawn ==
    \/ \E exp \in ExpectedCodes : MainExecute("cmd", exp)
    \/ \E exp \in ExpectedCodes : MainExecuteFails(exp)
    \/ \E t \in TaskIds, exp \in ExpectedCodes : CallbackSpawn(t, "cmd", exp)
    \/ \E t \in TaskIds : CommandTaskInit(t)
    \/ \E t \in TaskIds : StartReader(t)
    \/ \E t \in TaskIds : SpawnFails(t)
    \/ \E t \in TaskIds, c \in ExitCodes : MuxFinished(t, c)
    \/ \E t \in TaskIds : OnFinishedUnregister(t)
    \/ \E t \in TaskIds : CallbackReturn(t)
    \/ \E r \in BOOLEAN : WftBegin(r)
    \/ WftSnapshot
    \/ \E t \in TaskIds : WftWaitBegin(t)
    \/ WftJoin
    \/ WftCrash
    \/ WftClear
    \/ WftReturn

SpecSpawn == InitSpawn /\ [][NextSpawn]_vars

\* the caller's thread runs while it is inside wait_for_tasks
CallerRuns ==
    /\ WF_vars(WftSnapshot)
    /\ WF_vars(\E t \in TaskIds : WftWaitBegin(t))
    /\ WF_vars(WftJoin)
    /\ WF_vars(WftCrash)
    /\ WF_vars(WftClear)
    /\ WF_vars(WftReturn)

\* the commands end, and the worker threads run: _on_finished, the
\* constructor of a task made in the callback, the callback's return
WorkersRun ==
    /\ WF_vars(\E t \in TaskIds, c \in ExitCodes : MuxFinished(t, c))
    /\ WF_vars(\E t \in TaskIds : OnFinishedUnregister(t))
    /\ WF_vars(\E t \in TaskIds : CommandTaskInit(t))
    /\ WF_vars(\E t \in TaskIds : StartReader(t) \/ SpawnFails(t))
    /\ WF_vars(\E t \in TaskIds : CallbackReturn(t))

FairSpawn == SpecSpawn /\ CallerRuns /\ WorkersRun

\* ------------------------------------------------- claims under Spec
\* every error the wait_for_tasks() calls reported so far, in order
RECURSIVE Reported(_)
Reported(rs) == IF rs = <<>> THEN <<>> ELSE Head(rs).errors \o Reported(Tail(rs))

\* how often x occurs in the sequence s
Count(s, x) == Cardinality({i \in 1..Len(s) : s[i] = x})

\* C2: a task that finished with an error and was never waited when a
\* wait_for_tasks() call began has that error exactly once in what the calls
\* made since then reported: in the first of them, and in no later one.
C2_SilentErrorReportedOnce ==
    mpc = "idle" =>
        \A t \in silent_due : Count(Reported(results), Error(t)[1]) = 1

\* C3: a task that a callback registered while a wait_for_tasks() call was
\* running (with a snapshot still to take) has finished when that call
\* returns, and its error, if any, is in the call's result.
C3_TransitiveWait ==
    (mpc = "idle" /\ results # <<>>) =>
        \A c \in spawned_in_call :
            /\ wpc[c] = "dead"
            /\ Error(c) # None =>
                   Error(c)[1] \in SeqToSet(results[Len(results)].errors)

\* C4: an error put in the silent-error list while the k-th wait_for_tasks()
\* call was running is reported by the k-th or the (k+1)-th call.
C4_NoSilentErrorDropped ==
    \A a \in appended :
        (a[2] >= 1 /\ Len(results) >= a[2] + 1) =>
            \/ a[1] \in SeqToSet(results[a[2]].errors)
            \/ a[1] \in SeqToSet(results[a[2] + 1].errors)

\* a wait() call returns in this step: the caller's own, or wait_for_tasks'
WaitReturns ==
    \/ mpc = "wait" /\ mpc' = "idle"
    \/ mpc = "wft_join" /\ mpc' \in {"wft_loop", "wft_clear"}

\* C10: wait() has set explicit_wait when it blocks, and when it returns the
\* task's worker has run and ended (is_running() is False, the terminal
\* callback is over).
C10_WaitReturnsAfterWorker ==
    [][/\ mpc' \in {"wait", "wft_join"} => explicit_wait'[mtask']
       /\ WaitReturns => wpc[mtask] = "dead"]_vars


\* ------------------------------------------- claims under SpecReader
\* the terminal callbacks among the callbacks invoked so far
Terminals(cs) == SelectSeq(cs, LAMBDA c : c.cb \in {"timeout", "finished"})

\* the lines given to the callback of stream s, in the order of the calls
Delivered(s) ==
    LET sel == SelectSeq(calls, LAMBDA c : c.cb = s)
    IN  [i \in 1..Len(sel) |-> sel[i].line]

\* what the i-th line of stream s reads without its trailing whitespace
ExpectedText(s, i) == <<" ">> \o [j \in 1..i |-> IF s = "stdout" THEN "o" ELSE "e"]

\* C1: the merge worker invokes at most one terminal callback, and once it
\* has ended it has invoked exactly one: timeout_callback or
\* finished_callback, never both, never neither.
C1_ExactlyOneTerminal ==
    /\ Len(Terminals(calls)) <= 1
    /\ wpc[1] = "dead" => Len(Terminals(calls)) = 1

\* a run that delivered lines and ended with the finished callback
C1_Witness ==
    /\ wpc[1] = "dead"
    /\ Len(calls) >= 3
    /\ calls[Len(calls)] = FinishedCall

\* C6: when the loop ends because no reader is alive, with no deadline seen
\* exceeded, every line of every stream has been given to its callback once,
\* stripped, in the order it was read; the finished callback comes last and
\* once, there is no timeout callback and timed_out() is False.
C6_NaturalCompletion ==
    (wpc[1] \in {"fin_unreg", "fin_cb", "dead"} /\ ~rd.timed_out) =>
        /\ \A s \in Streams :
               Delivered(s) = [i \in 1..Len(source[s]) |-> ExpectedText(s, i)]
        /\ calls[Len(calls)] = FinishedCall
        /\ Count(calls, FinishedCall) = 1
        /\ Count(calls, TimeoutCall) = 0
        /\ ~timed_out[1]

\* both streams carried lines, deadlines were configured, and lines were
\* still in the queue when the last reader had ended
C6_Witness ==
    /\ wpc[1] = "dead" /\ ~rd.timed_out
    /\ Len(source["stdout"]) = MaxLines /\ Len(source["stderr"]) = MaxLines
    /\ cfg.timeout # None /\ cfg.output_timeout # None
    /\ rd.item = None

\* C7: once a terminal callback has been invoked no callback is invoked any
\* more, whatever is in the queue and whatever the readers still put in it.
C7_NoCallbackAfterTerminal ==
    [][Len(Terminals(calls)) > 0 => calls' = calls]_vars

\* the worker ended by a timeout and left lines in the queue
C7_Witness ==
    /\ wpc[1] = "dead"
    /\ calls[Len(calls)] = TimeoutCall
    /\ Len(queue) >= 2

\* an empty poll was followed by a sample of the clock later than
\* output_timeout after the start or after the sample of the last dequeue
IdleObserved ==
    /\ cfg.output_timeout # None
    /\ wpc[1] \notin {"start", "sample"}
    /\ rd.item = None
    /\ rd.now > obs.idle_ref + cfg.output_timeout[1]

\* an iteration sampled the clock later than timeout after start_time
TotalObserved ==
    /\ cfg.timeout # None
    /\ wpc[1] \notin {"start", "sample"}
    /\ rd.now > rd.start_time + cfg.timeout[1]

\* C5 as claimed: once every present stream has been open and silent for
\* longer than output_timeout (since the start, the last line written and the
\* last line delivered), no line is delivered any more, and the worker ends
\* with the timeout callback invoked once and timed_out() True.
C5_IdleTimeout ==
    [][obs.idle_due =>
          /\ calls' \in {calls, Append(calls, TimeoutCall)}
          /\ wpc'[1] = "dead" =>
                 timed_out'[1] /\ Count(calls', TimeoutCall) = 1]_vars

\* C5 amended: once a poll came back empty and the clock sampled after it was
\* past the idle deadline, the loop is over, the finished callback is never
\* invoked, the timeout callback is invoked once, timed_out() is True when
\* _on_timeout has set it, and no line is delivered after that poll.
C5_IdleTimeoutObserved ==
    [][/\ IdleObserved' =>
             /\ wpc'[1] \in {"timeout_cb", "to_unreg", "to_set", "to_cb", "dead"}
             /\ Count(calls', FinishedCall) = 0
             /\ Count(calls', TimeoutCall) = IF wpc'[1] = "timeout_cb" THEN 0 ELSE 1
             /\ wpc'[1] \in {"to_cb", "dead"} => timed_out'[1]
       /\ IdleObserved => calls' \in {calls, Append(calls, TimeoutCall)}]_vars

\* an idle timeout after a line was delivered, with a later line left in the
\* queue and no total timeout configured
C5_Witness ==
    /\ wpc[1] = "dead"
    /\ IdleObserved
    /\ cfg.timeout = None
    /\ Len(calls) >= 2
    /\ queue # <<>>

\* C8 as claimed: once a reader has been alive later than timeout after the
\* start, the finished callback is never invoked and the worker ends with
\* the timeout callback invoked once.
C8_TotalTimeout ==
    obs.total_due =>
        /\ Count(calls, FinishedCall) = 0
        /\ wpc[1] = "dead" => Count(calls, TimeoutCall) = 1

\* C8 amended: an iteration that samples the clock later than timeout after
\* start_time is the last one (it still gives the line it dequeued to its
\* callback); the timeout callback is invoked once, the finished callback
\* never; the deadline is start_time + timeout whatever output arrives.
C8_TotalTimeoutObserved ==
    TotalObserved =>
        /\ wpc[1] \in {"callback", "timeout_cb", "to_unreg", "to_set", "to_cb", "dead"}
        /\ Count(calls, FinishedCall) = 0
        /\ Count(calls, TimeoutCall) = IF wpc[1] \in {"callback", "timeout_cb"} THEN 0 ELSE 1
        /\ wpc[1] \in {"to_cb", "dead"} => timed_out[1]

\* a total timeout seen in an iteration that dequeued a line, after output
\* had moved the idle deadline
C8_Witness ==
    /\ wpc[1] = "dead"
    /\ TotalObserved
    /\ cfg.output_timeout # None
    /\ rd.item # None
    /\ Len(calls) >= 3


\* -------------------------------------------- claims under SpecError
\* C9: error() returns a TimeoutError when the task timed out; else an
\* ExitCodeError when an expected code is set, an exit code was observed and
\* they differ; else None (expected None, no exit code yet, or equal codes).
C9_ErrorTable ==
    err_result # None =>
        LET e == err_result[1] IN
        /\ e.timed_out => e.result = Some(TimeoutError(1))
        /\ (/\ ~e.timed_out
            /\ e.expected # None /\ e.observed # None
            /\ e.observed # e.expected) => e.result = Some(ExitCodeError(1))
        /\ (~e.timed_out /\ e.expected = None) => e.result = None
        /\ (~e.timed_out /\ e.observed = None) => e.result = None
        /\ (~e.timed_out /\ e.observed = e.expected) => e.result = None

\* error() was called on a task that timed out and whose exit code differs
\* from the expected one
C9_Witness ==
    /\ err_result # None
    /\ err_result[1].timed_out
    /\ err_result[1].expected = Some(0)
    /\ err_result[1].observed = Some(1)
    /\ err_result[1].result = Some(TimeoutError(1))

\* --------------------------------------------- claims about Task.wait
\* C11: a wait(raise_if_error=True) call raises the task's error exactly when
\* error() is not None once the worker has ended, a wait(raise_if_error=False)
\* call raises nothing (neither the caller's nor those wait_for_tasks makes),
\* and a wait() of a CommandTask that raises nothing returns the observed exit
\* code.
C11_WaitRaisesOnlyOnRequest ==
    /\ \A i \in 1..Len(waits) :
          LET w == waits[i] IN
          /\ w.raised = (IF w.raise_if_error THEN w.error ELSE None)
          /\ (kind[w.task] = "cmd" /\ w.raised = None) => w.returned = exit_code[w.task]
    /\ mpc # "crashed"

\* the part of C11 about the caller's own wait() calls
C11_CallerWaits ==
    \A i \in 1..Len(waits) :
        LET w == waits[i] IN
        /\ w.raised = (IF w.raise_if_error THEN w.error ELSE None)
        /\ (kind[w.task] = "cmd" /\ w.raised = None) => w.returned = exit_code[w.task]

\* ------------------------------------ claims about _unregister_task
\* C12: however many times a task is unregistered, it is out of the live
\* tasks afterwards and the session's silent errors hold an error of a
\* never-waited task at most once.
C12_UnregisterIdempotent ==
    \A t \in TaskIds :
        counts[t].unreg >= 1 =>
            /\ t \notin SeqToSet(tasks)
            /\ \A e \in SeqToSet(silent_errors) : Count(silent_errors, e) <= 1

\* the task the caller has in hand was waited before, and that wait() is over
WaitedBefore(t) == \E i \in 1..Len(waits) : waits[i].task = t

\* two wait() calls of one task see the same error(); with the same
\* raise_if_error they raise the same error or return the same value, and two
\* that raise nothing return the same value
SameOutcome ==
    \A i, j \in 1..Len(waits) :
        (i < j /\ waits[i].task = waits[j].task) =>
            /\ waits[j].error = waits[i].error
            /\ waits[j].raise_if_error = waits[i].raise_if_error =>
                   /\ waits[j].raised = waits[i].raised
                   /\ waits[j].returned = waits[i].returned
            /\ (waits[i].raised = None /\ waits[j].raised = None) =>
                   waits[j].returned = waits[i].returned

\* a further wait() has nothing to join
ReturnsAtOnce ==
    (mpc = "wait" /\ WaitedBefore(mtask)) =>
        ~IsAlive(mtask) /\ ~WaitRaisesAttributeError(mtask)

\* the steps of a further wait() leave _tasks and _silent_errors alone
FurtherWaitKeepsSession ==
    (mpc' # mpc /\ "wait" \in {mpc, mpc'} /\ WaitedBefore(mtask')) =>
        UNCHANGED <<tasks, silent_errors, auxVars>>

\* C13: a second wait() on a task whose worker has ended returns at once with
\* the outcome of the first (the same exit code, or the same error raised),
\* and changes neither the live tasks nor the silent errors.
C13_WaitIdempotent ==
    /\ [](SameOutcome /\ ReturnsAtOnce)
    /\ [][FurtherWaitKeepsSession]_vars

\* a command task that exited with an unexpected status was waited twice with
\* raise_if_error=True, and both calls raised its ExitCodeError
C13_Witness ==
    /\ Len(waits) = 2
    /\ waits[1].task = 1 /\ waits[2].task = 1
    /\ waits[1].raise_if_error /\ waits[2].raise_if_error
    /\ waits[1].raised = Some(ExitCodeError(1))
    /\ waits[2].raised = Some(ExitCodeError(1))
    /\ mpc = "idle"

\* ------------------------------------- claims about wait_for_tasks
\* C14: one wait_for_tasks() call waits no task twice (a task it waited is not
\* put before the for loop again), and when it has returned it has waited
\* every task that was live in the session while it ran; the tasks callbacks
\* registered during the call are among these.
C14_EveryLiveTaskWaitedOnce ==
    /\ wft_todo \cap tasks_seen = {}
    /\ mpc = "wft_join" => mtask \in wft_todo
    /\ (mpc = "idle" /\ results # <<>>) =>
           \A c \in spawned_in_call : explicit_wait[c]

\* the part of C14 about the tasks the call found live at one of its
\* snapshots: each is waited once, none a second time
C14_SnapshotWaitedOnce ==
    /\ wft_todo \cap tasks_seen = {}
    /\ mpc = "wft_join" => mtask \in wft_todo
    /\ mpc \in {"wft_snap", "wft_final"} =>
           \A t \in tasks_seen \cup wft_tasks : explicit_wait[t]

\* C15: when the two tasks a wait_for_tasks() call found live at its first
\* snapshot were registered as 1 and then 2 and both carry an error, the errors
\* the call has collected after its first round are those two, the error of
\* task 1 before the error of task 2.
C15_ErrorsInRegistrationOrder ==
    (/\ mpc = "wft_clear"
     /\ tasks_seen = {}
     /\ wft_tasks = {1, 2}
     /\ Error(1) # None
     /\ Error(2) # None) => wft_errors = Error(1) \o Error(2)

\* the calls that ended did what their raise_if_error asks: TaskErrors(errors)
\* is raised exactly when raise_if_error is set and an error was collected
ReturnContract ==
    \A i \in 1..Len(results) :
        results[i].raised <=> (results[i].raise_if_error /\ results[i].errors # <<>>)

\* C16: wait_for_tasks(raise_if_error=True) raises TaskErrors with the
\* collected errors exactly when there is one and returns [] otherwise,
\* wait_for_tasks(raise_if_error=False) returns the collected errors, and no
\* call ends in another exception.
C16_RaiseOrReturn ==
    /\ ReturnContract
    /\ mpc # "crashed"

\* ----------------------------------------- claims about __exit__
\* what __exit__ is to do, in order, given how the block was left
ExpectedLog(exc) ==
    <<"wait_for_tasks">>
    \o (IF scope.auto_close THEN <<"close">> ELSE <<>>)
    \o <<IF exc THEN "propagate"
         ELSE IF results[Len(results)].errors # <<>> THEN "raise TaskErrors"
         ELSE "return">>

\* an __exit__ that got to its end did the expected, and its wait_for_tasks
\* call was one with raise_if_error=False
ExitInOrder ==
    scope.state = "exited" =>
        /\ scope.log = ExpectedLog(scope.exception)
        /\ ~results[Len(results)].raise_if_error

\* C17: leaving the with block without an exception does, in this order,
\* wait_for_tasks(raise_if_error=False) once, close() once when auto_close is
\* set, and then raises TaskErrors when errors were collected and nothing
\* when none was; no other exception ends it.
C17_NormalExit ==
    (scope.state # "open" /\ ~scope.exception) =>
        /\ ExitInOrder
        /\ mpc # "crashed"

\* C18: leaving the with block by an exception still waits the tasks once and
\* closes the session once (when auto_close is set), raises no TaskErrors, and
\* lets the exception of the block go on to the caller; no other exception
\* takes its place.
C18_ExitByException ==
    (scope.state # "open" /\ scope.exception) =>
        /\ ExitInOrder
        /\ scope.state = "exited" => scope.log[Len(scope.log)] = "propagate"
        /\ mpc # "crashed"

\* ------------------------------- claims about a task's registration
\* the worker of a command task is past _unregister()
CmdUnregistered(t) == wpc[t] \in {"fin_cb", "to_set", "to_cb", "dead"}

\* C19: a CommandTask is registered once, at construction, and stays in the
\* live tasks until its worker unregisters it, once, when the multiplexer has
\* reported completion or a timeout; that is before the user's on_finished /
\* on_timeout callback is called, so the task is not among the live tasks
\* when that callback starts, nor later.
C19_CommandTaskRegistration ==
    \A t \in TaskIds :
        kind[t] = "cmd" =>
            /\ counts[t].reg = 1
            /\ counts[t].unreg = (IF CmdUnregistered(t) THEN 1 ELSE 0)
            /\ Count(tasks, t) = 1 - counts[t].unreg
            /\ counts[t].cb <= counts[t].unreg
            /\ counts[t].cb = (IF wpc[t] \in {"fin_cb", "to_cb", "dead"} THEN 1 ELSE 0)

\* both ends were seen: one command task is inside its on_timeout callback,
\* the other inside its on_finished callback, and neither is live
C19_Witness ==
    /\ kind[1] = "cmd" /\ kind[2] = "cmd"
    /\ wpc[1] = "to_cb" /\ wpc[2] = "fin_cb"
    /\ counts[1] = [reg |-> 1, unreg |-> 1, run |-> 0, raised |-> 0, cb |-> 1]
    /\ counts[2] = [reg |-> 1, unreg |-> 1, run |-> 0, raised |-> 0, cb |-> 1]
    /\ tasks = <<>>

\* the wrapper of a background task is past callable(*args, **kwargs)
ThrRan(t) == wpc[t] \in {"thr_unreg", "thr_cb", "dead"}

\* C20: a ThreadableTask's thread is started by the constructor and runs the
\* callable once; whether the callable returned or raised, the task is then
\* unregistered once, and only then is the finished callback called, once;
\* the task is not among the live tasks once it was unregistered, so never
\* after the finished callback is over.
C20_ThreadableTaskLifecycle ==
    \A t \in TaskIds :
        kind[t] = "thr" =>
            /\ counts[t].reg = 1
            /\ cpc[t] = "built" => wpc[t] # "unstarted"
            /\ counts[t].run = (IF ThrRan(t) THEN 1 ELSE 0)
            /\ counts[t].unreg = (IF wpc[t] \in {"thr_cb", "dead"} THEN 1 ELSE 0)
            /\ counts[t].cb = counts[t].unreg
            /\ Count(tasks, t) = 1 - counts[t].unreg
            /\ wpc[t] = "dead" => t \notin SeqToSet(tasks)

\* a background task whose callable raised and one whose callable returned
\* have both ended: each ran once, was unregistered once and called back once
C20_Witness ==
    /\ kind[1] = "thr" /\ kind[2] = "thr"
    /\ wpc[1] = "dead" /\ wpc[2] = "dead"
    /\ exception[1] = Some(TaskError(1)) /\ exception[2] = None
    /\ counts[1] = [reg |-> 1, unreg |-> 1, run |-> 1, raised |-> 1, cb |-> 1]
    /\ counts[2] = [reg |-> 1, unreg |-> 1, run |-> 1, raised |-> 0, cb |-> 1]
    /\ tasks = <<>>

\* ------------------------------------- claims about ThreadableTask
\* error() of a background task is the TaskError of the task when its callable
\* has raised, and None before that and when the callable returned
ErrorIffRaised ==
    \A t \in TaskIds :
        kind[t] = "thr" =>
            Error(t) = (IF counts[t].raised = 1 THEN Some(TaskError(t)) ELSE None)

\* the step in which the wrapper unregisters task t
UnregistersNow(t) == wpc[t] = "thr_unreg" /\ wpc'[t] = "thr_cb"

\* the unregistration of a background task whose callable raised puts its
\* TaskError in the silent errors when nobody has waited the task, and nothing
\* otherwise
UnregistrationKeepsError ==
    \A t \in TaskIds :
        UnregistersNow(t) =>
            silent_errors' = (IF counts[t].raised = 1 /\ ~explicit_wait[t]
                              THEN Append(silent_errors, TaskError(t))
                              ELSE silent_errors)

\* C21: ThreadableTask.error() is None while the callable has not raised and
\* after it returned, and the task's TaskError after it raised; the error is
\* there when the task unregisters, so the session keeps it as a silent error
\* when the task was not waited explicitly.
C21_ThreadableTaskError ==
    /\ []ErrorIffRaised
    /\ [][UnregistrationKeepsError]_vars

\* a background task nobody waited raised, and its TaskError is in the silent
\* errors when its finished callback starts
C21_Witness ==
    /\ kind[1] = "thr"
    /\ wpc[1] = "thr_cb"
    /\ counts[1].raised = 1
    /\ ~explicit_wait[1]
    /\ silent_errors = <<TaskError(1)>>

\* ------------------------------- further claims under SpecReader
\* C22: exit_code() is not None only after natural completion: no reader is
\* alive, the queue is drained, and the multiplexer has made its finished
\* call; it is None whenever the multiplexer or the task has noted a timeout,
\* so timed_out() and an exit code never go together.
C22_ExitCodeOnlyAfterCompletion ==
    /\ exit_code[1] # None =>
           /\ ~AnyReaderAlive
           /\ queue = <<>>
           /\ Count(calls, FinishedCall) = 1
           /\ wpc[1] \in {"fin_unreg", "fin_cb", "dead"}
    /\ (timed_out[1] \/ rd.timed_out \/ Count(calls, TimeoutCall) > 0) =>
           exit_code[1] = None

\* one run ended by natural completion with exit status 1 ...
C22_Witness ==
    /\ wpc[1] = "dead"
    /\ exit_code[1] = Some(1)
    /\ ~timed_out[1]
    /\ Len(source["stdout"]) = MaxLines

\* ... and another by a timeout, its exit code still None after the worker
\* has ended
C22_WitnessTimedOut ==
    /\ wpc[1] = "dead"
    /\ timed_out[1]
    /\ exit_code[1] = None

\* ------------------------------------- claims under SpecOptions
\* C23: with combine_stderr left out the streams are combined exactly when no
\* stderr callback is supplied, neither on_stderr nor the deprecated
\* stderr_callback; a combine_stderr of True or False is kept as given.
C23_CombineDefault ==
    opt.pc = "kept" =>
        opt.combine_stderr =
            (IF opt.args.combine_stderr # None
             THEN opt.args.combine_stderr[1]
             ELSE opt.args.on_stderr = None /\ opt.args.stderr_callback = None)

\* the part of C23 about the deprecated stderr_callback and about an explicit
\* combine_stderr
C23_DeprecatedNameOnly ==
    opt.pc = "kept" =>
        opt.combine_stderr =
            (IF opt.args.combine_stderr # None
             THEN opt.args.combine_stderr[1]
             ELSE opt.args.stderr_callback = None)

\* what the callback of stream s got so far is, in order, the stripped text
\* of the first lines of that stream
OwnLinesOnly(s) ==
    /\ Len(Delivered(s)) <= Len(source[s])
    /\ \A i \in 1..Len(Delivered(s)) : Delivered(s)[i] = ExpectedText(s, i)

\* C24: the stdout callback gets lines of stdout only and the stderr callback
\* lines of stderr only, each without its trailing whitespace; when stderr is
\* combined into stdout the stderr callback is never called. A process that
\* writes one line to each stream and exits 0, with no timeout configured,
\* ends with that one line at each callback, no timeout and error() None.
C24_StreamRouting ==
    /\ \A s \in Streams : OwnLinesOnly(s)
    /\ rstate["stderr"] = "absent" => Delivered("stderr") = <<>>
    /\ (/\ wpc[1] = "dead"
        /\ cfg.timeout = None /\ cfg.output_timeout = None
        /\ Len(source["stdout"]) = 1 /\ Len(source["stderr"]) = 1
        /\ exit_code[1] = Some(0)) =>
           /\ Delivered("stdout") = <<ExpectedText("stdout", 1)>>
           /\ Delivered("stderr") = <<ExpectedText("stderr", 1)>>
           /\ Count(calls, TimeoutCall) = 0
           /\ ~timed_out[1]
           /\ Error(1) = None

\* the scenario has run to its end: one line on each of the separate streams,
\* exit status 0
C24_Witness ==
    /\ wpc[1] = "dead"
    /\ cfg.timeout = None /\ cfg.output_timeout = None
    /\ rstate = [s \in Streams |-> "dead"]
    /\ Len(source["stdout"]) = 1 /\ Len(source["stderr"]) = 1
    /\ exit_code[1] = Some(0)
    /\ Delivered("stdout") = <<ExpectedText("stdout", 1)>>
    /\ Delivered("stderr") = <<ExpectedText("stderr", 1)>>

\* ---------------------------------------------- claims under SpecManager
\* the value stored under key k of an ordered dict that has it
Lookup(d, k) == d[CHOOSE i \in 1..Len(d) : d[i].key = k].value

\* the entries of d other than k are those of e, with their values
SameButFor(d, e, k) ==
    /\ DictKeys(d) \ {k} = DictKeys(e) \ {k}
    /\ \A j \in DictKeys(d) \ {k} : Lookup(d, j) = Lookup(e, j)

\* manager[k] = v was accepted: v is under k, nothing else has changed
Stored(l) ==
    /\ l.raised = "none"
    /\ l.key \in DictKeys(mgr'.registry)
    /\ Lookup(mgr'.registry, l.key) = l.value
    /\ SameButFor(mgr'.registry, mgr.registry, l.key)
    /\ Len(mgr'.registry) = Cardinality(DictKeys(mgr'.registry))

\* C25: SessionManager accepts an item only when the key is a string and the
\* value a BaseSession: any other insertion raises TypeError and leaves the
\* registry unchanged; assigning a BaseSession as an attribute stores it under
\* that name, assigning any other value as an attribute never adds an entry to
\* the registry, and deleting a stored session by attribute removes exactly
\* that entry.
C25_OnlySessionsUnderNames ==
    [][LET l == mgr'.last IN
       /\ l.op = "setitem" =>
            IF l.key.isa = "str" /\ l.value.isa = "BaseSession"
            THEN Stored(l)
            ELSE l.raised = "TypeError" /\ mgr'.registry = mgr.registry
       /\ l.op = "setattr" =>
            IF l.value.isa = "BaseSession"
            THEN Stored(l)
            ELSE mgr'.registry = mgr.registry
       /\ l.op = "delattr" /\ l.key \in DictKeys(mgr.registry) =>
            /\ l.raised = "none"
            /\ l.key \notin DictKeys(mgr'.registry)
            /\ SameButFor(mgr'.registry, mgr.registry, l.key)
            /\ Len(mgr'.registry) = Len(mgr.registry) - 1
            /\ mgr'.attrs = mgr.attrs]_vars

\* an insertion has been refused while two sessions are stored and a plain
\* attribute has been set, and the session under "a" was stored after the one
\* under "b"
C25_Witness ==
    /\ mgr.last.raised = "TypeError"
    /\ mgr.attrs # {}
    /\ Len(mgr.registry) = 2
    /\ mgr.registry[2].key.name = "a"

\* the sessions stored in an ordered dict
Members(d) == {d[i].value.id : i \in 1..Len(d)}

\* the calls made when op is called on the value of every entry, in order
OnEach(d, op) == [i \in 1..Len(d) |-> Event(op, d[i].value.id)]

\* the errors the sessions of the first n entries held, entry after entry; a
\* session stored under two names has given them all at its first entry
RECURSIVE HeldUpTo(_, _, _)
HeldUpTo(d, held, n) ==
    IF n = 0 THEN <<>>
    ELSE HeldUpTo(d, held, n - 1) \o
         (IF \E j \in 1..(n - 1) : d[j].value = d[n].value
          THEN <<>> ELSE held[d[n].value.id].errors)

\* what SessionManager.wait_for_tasks is to do
AggregateContract ==
    /\ mgr.last.log = OnEach(mgr.registry, "wait_for_tasks")
    /\ mgr.result.errors = HeldUpTo(mgr.registry, mgr.result.before, Len(mgr.registry))
    /\ mgr.last.raised =
         IF mgr.result.raise_if_error /\ mgr.result.errors # <<>> THEN "TaskErrors" ELSE "none"

\* C26: SessionManager.wait_for_tasks calls wait_for_tasks(raise_if_error=False)
\* on every member session and reports the concatenation of their error lists
\* in session insertion order; it raises TaskErrors with that list when
\* raise_if_error is true and the list is non-empty, and returns the list
\* otherwise.
C26_AggregateWait == mgr.last.op = "wait_for_tasks" => AggregateContract

\* the same, for the calls in which every member's wait_for_tasks returns
C26_WhenMembersReturn ==
    mgr.last.op = "wait_for_tasks" /\ mgr.last.raised # "AttributeError" => AggregateContract

\* two sessions with an error each have been waited, the later stored first
C26_MembersReturnWitness ==
    /\ mgr.last.op = "wait_for_tasks"
    /\ mgr.last.raised = "TaskErrors"
    /\ Len(mgr.result.errors) = 2
    /\ mgr.result.errors[1].session = 2

\* the waits of the scope exit come before its closes
WaitsThenCloses ==
    \A i, j \in 1..Len(mgr.last.log) :
        mgr.last.log[i].op = "close" /\ mgr.last.log[j].op = "wait_for_tasks" => j < i

\* what leaving the scope is to do with the member sessions
ScopeContract ==
    /\ WaitsThenCloses
    /\ \A s \in SessionIds :
         /\ mgr.sessions[s].waited = IF s \in Members(mgr.registry) THEN 1 ELSE 0
         /\ mgr.sessions[s].closed =
              IF s \in Members(mgr.registry) /\ mgr.sessions[s].auto_close THEN 1 ELSE 0

\* C27: Leaving a SessionManager scope waits once for the tasks of all member
\* sessions, including sessions added inside the scope, and then closes
\* exactly the members whose auto_close is true, each exactly once; a member
\* with auto_close false is never closed by the scope exit.
C27_ScopeExit == mgr.last.op = "exit" => ScopeContract

\* the same, when every member's wait_for_tasks returns and no session is
\* stored under two names
C27_WhenMembersReturn ==
    /\ mgr.last.op = "exit"
    /\ mgr.last.raised # "AttributeError"
    /\ Len(mgr.registry) = Cardinality(Members(mgr.registry))
    => ScopeContract

\* a member with auto_close false is not closed by the scope exit, whatever
\* else happens
C27_NeverClosesKept ==
    mgr.last.op = "exit" =>
        \A s \in SessionIds : ~mgr.sessions[s].auto_close => mgr.sessions[s].closed = 0

\* a scope with one member of each kind has been left
C27_MembersReturnWitness ==
    /\ mgr.last.op = "exit"
    /\ mgr.last.raised = "none"
    /\ Len(mgr.registry) = 2
    /\ mgr.sessions[1].auto_close /\ mgr.sessions[1].closed = 1
    /\ ~mgr.sessions[2].auto_close /\ mgr.sessions[2].waited = 1

\* ------------------------------------------------- claims under SpecCopy
\* a tree as seen from its top: the relative paths of its directories, and of
\* its files with their bytes
Relative(tree, top) ==
    [dirs |-> {SubSeq(p, Len(top) + 1, Len(p)) : p \in tree.dirs},
     files |-> {<<SubSeq(p, Len(top) + 1, Len(p)), tree.files[p]>> : p \in DOMAIN tree.files}]

\* the directory a path is in
Parent(p) == SubSeq(p, 1, Len(p) - 1)

\* copy_dir has returned, the destination root was created first, every file
\* was opened in a directory created before, and the two trees are alike
CopiedInOrder ==
    /\ fs.pc = "done"
    /\ fs.log # <<>>
    /\ fs.log[1] = [op |-> "mkdir", path |-> fs.dest]
    /\ \A i \in 1..Len(fs.log) :
         fs.log[i].op = "open" =>
           \E j \in 1..(i - 1) : fs.log[j] = [op |-> "mkdir", path |-> Parent(fs.log[i].path)]
    /\ Relative(fs.dtree, fs.dest) = Relative(fs.stree, fs.src)

\* C28: copy_dir from a source session (LocalSession or SshSession) with one
\* subdirectory containing one file to a destination path that does not exist
\* creates the destination root first, creates every subdirectory before any
\* file is copied into it, and ends with the destination tree having the same
\* relative structure and byte-identical file contents as the source.
C28_CopyDir == fs.pc \in {"done", "raised"} => CopiedInOrder

\* the same, from an SshSession
C28_FromSshSession ==
    fs.src_session = "SshSession" /\ fs.pc \in {"done", "raised"} => CopiedInOrder

\* a file of three bytes has been copied from an SshSession in two chunks
C28_FromSshSessionWitness ==
    /\ fs.pc = "done"
    /\ fs.src_session = "SshSession"
    /\ fs.chunk_size = 2
    /\ fs.dtree.files[<<"dest", "sub", "file">>] = <<0, 1, 0>>

\* from a LocalSession copy_dir ends in TypeError with the root created only
C28_FromLocalSession ==
    fs.src_session = "LocalSession" /\ fs.pc \in {"done", "raised"} =>
        /\ fs.raised = "TypeError"
        /\ fs.dtree = [dirs |-> {fs.dest}, files |-> <<>>]

\* ------------------------------------- the timeout of a command task
\* the step in which _on_timeout of task t calls self._unregister()
TimeoutUnregisters(t) == wpc[t] = "to_unreg" /\ wpc'[t] = "to_set"

\* C29: When a CommandTask times out, timed_out() is already True, so error()
\* already returns a TimeoutError, at the moment the session processes the
\* task's unregistration and before the user's on_timeout callback runs;
\* hence the timeout of a never-waited command task is retained in the
\* session's silent-error list.
C29_TimeoutKeptAtUnregistration ==
    [][\A t \in TaskIds :
         TimeoutUnregisters(t) =>
           /\ timed_out[t]
           /\ Error(t) = Some(TimeoutError(t))
           /\ ~explicit_wait[t] => silent_errors' = Append(silent_errors, TimeoutError(t))]_vars

\* what the code does: the session sees no error when it unregisters a task
\* that timed out and keeps nothing; the flag is set when the user's
\* on_timeout callback runs
C29_TimeoutSetAfterUnregistration ==
    /\ [][\A t \in TaskIds :
            TimeoutUnregisters(t) =>
              ~timed_out[t] /\ Error(t) = None /\ silent_errors' = silent_errors]_vars
    /\ [](\A t \in TaskIds : wpc[t] = "to_cb" => timed_out[t] /\ Error(t) = Some(TimeoutError(t)))

\* a command task that nobody waited has timed out and is unregistered, its
\* on_timeout callback is running
C29_SetAfterWitness ==
    \E t \in TaskIds :
        wpc[t] = "to_cb" /\ ~explicit_wait[t] /\ t \notin SeqToSet(tasks) /\ silent_errors = <<>>

\* --------------------------------------------------- the idle deadline
\* the step in which the merge loop, having dequeued a line, samples the
\* clock and goes on to the line's callback
LineSampled == wpc[1] = "sample" /\ rd.item # None /\ wpc'[1] = "callback"

\* the step in which the merge loop decides that the command timed out
TimesOut == ~rd.timed_out /\ rd'.timed_out

\* ... by the idle deadline: the test made without a line
TimesOutIdle ==
    /\ TimesOut
    /\ rd.output_timeout # None
    /\ rd'.item = None
    /\ rd'.now > rd.output_timeout[1]

\* the command has written every line so far, and is writing the next, sooner
\* than output_timeout after the one before
Steady == obs.steady /\ now - obs.last_line < cfg.output_timeout[1]

\* the deadline is now + output_timeout after every line dequeued in the
\* loop; a time out decided with a line in hand is the total one, and the
\* idle one is decided on an empty poll only
DeadlineFollowsLines ==
    /\ LineSampled =>
         /\ rd'.output_timeout =
              IF cfg.output_timeout = None THEN None ELSE Some(now + cfg.output_timeout[1])
         /\ ~rd'.timed_out
    /\ TimesOut /\ rd'.item # None =>
         /\ wpc[1] = "callback"
         /\ cfg.timeout # None
         /\ rd.now > rd.start_time + cfg.timeout[1]
    /\ TimesOut /\ ~(cfg.timeout # None /\ rd'.now > rd.start_time + cfg.timeout[1]) =>
         wpc[1] = "sample" /\ rd.item = None /\ TimesOutIdle

\* C30: The idle deadline is reset to now + output_timeout on every delivered
\* line and is evaluated only on an empty poll: a command that keeps emitting
\* lines with every silent gap shorter than output_timeout never ends by idle
\* timeout, however long it runs in total, and dequeuing a line never by
\* itself triggers the idle timeout.
C30_IdleDeadline ==
    [][DeadlineFollowsLines /\ (TimesOutIdle => ~Steady)]_vars

\* C30 amended: the same, the idle timeout of a steady command being excluded
\* when every line it has written was dequeued before the empty poll was
\* followed by the sampling of the clock.
C30_IdleDeadlineOfLinesSeen ==
    [][DeadlineFollowsLines /\ (TimesOutIdle /\ queue = <<>> => ~Steady)]_vars

\* a steady command has run for longer than output_timeout, its last line
\* written at time 3, and the loop has ended without a timeout, every line
\* delivered
C30_Witness ==
    /\ wpc[1] = "dead"
    /\ cfg.output_timeout = Some(2)
    /\ ~rd.timed_out
    /\ obs.steady
    /\ obs.last_line = 3
    /\ Count(calls, FinishedCall) = 1
    /\ Len(calls) >= 3

\* -------------------------------------- a line and the total deadline
\* the call of the line callback for the line the loop has in hand
CallOfLineInHand == [cb |-> rd.item[1].source, line |-> RStrip(rd.item[1].line)]

\* C31: Tie-break between a line and the total deadline: a line dequeued in
\* the same merge-loop iteration that finds the total deadline exceeded is
\* still delivered to its line callback, and the delivery happens before the
\* timeout callback.
C31_LineBeforeTimeout ==
    /\ [][TimesOut /\ rd'.item # None =>
            /\ calls' = Append(calls, CallOfLineInHand)
            /\ Count(calls', TimeoutCall) = 0]_vars
    /\ [](rd.timed_out /\ rd.item # None /\ Count(calls, TimeoutCall) > 0 =>
            /\ Len(calls) >= 2
            /\ calls[Len(calls)] = TimeoutCall
            /\ calls[Len(calls) - 1] = CallOfLineInHand)

\* the loop ended by the total deadline in the iteration that dequeued a line
\* of stderr, and the timeout callback has returned
C31_Witness ==
    /\ wpc[1] = "dead"
    /\ rd.timed_out
    /\ rd.item # None
    /\ rd.item[1].source = "stderr"
    /\ Count(calls, TimeoutCall) = 1

\* ------------------------------------------- finishing and a late timeout
\* the loop was left with no deadline marked exceeded: the drain, the joins,
\* the finished callback and what follows it
LeftByCompletion ==
    wpc[1] \in {"drain", "join", "fin_unreg", "fin_cb"} \/ (wpc[1] = "dead" /\ ~rd.timed_out)

\* C32: Finishing supersedes a late timeout: if the merge loop exits because
\* every present reader has ended and no deadline was marked exceeded inside
\* the loop, the multiplexer drains the queue and reports the finished
\* callback, never the timeout callback, even when a total or idle deadline
\* has already passed by the time of the drain.
C32_FinishedDespiteLateDeadline ==
    /\ [](LeftByCompletion =>
            /\ ~AnyReaderAlive
            /\ ~rd.timed_out
            /\ ~timed_out[1]
            /\ Count(calls, TimeoutCall) = 0)
    /\ [](LeftByCompletion /\ wpc[1] \in {"fin_unreg", "fin_cb", "dead"} =>
            /\ queue = <<>>
            /\ Count(calls, FinishedCall) = 1
            /\ calls[Len(calls)] = FinishedCall)
    /\ [][LeftByCompletion /\ wpc[1] = "drain" /\ queue # <<>> =>
            calls' \in {calls, Append(calls, LineCall(Head(queue)))}]_vars

\* both deadlines had passed, readers still alive, before the loop was left;
\* a line was drained after that and the finished callback was reported
C32_Witness ==
    /\ wpc[1] = "dead"
    /\ ~rd.timed_out
    /\ obs.total_due
    /\ cfg.output_timeout # None
    /\ rd.output_timeout # None
    /\ now > rd.output_timeout[1]
    /\ rd.item = None
    /\ Len(calls) >= 2
    /\ calls[Len(calls)] = FinishedCall

\* --------------------------------------------------- absent streams
\* the streams that got a reader thread
Present == {s \in Streams : rstate[s] # "absent"}

\* C33: An absent stream contributes no reader and is ignored by the
\* aliveness check: with only a stdout reader the merge loop runs exactly
\* while that reader is alive, and with no reader at all the multiplexer
\* reports the finished callback at once without any line callback and
\* without timing out.
C33_AbsentStreamsIgnored ==
    /\ [][wpc[1] = "test" /\ wpc'[1] # "test" =>
            IF \E s \in Present : rstate[s] = "alive"
            THEN wpc'[1] = "get"
            ELSE wpc'[1] = "drain"]_vars
    /\ [](\A s \in Streams \ Present :
            /\ source[s] = <<>>
            /\ \A i \in 1..Len(calls) : calls[i].cb # s
            /\ \A i \in 1..Len(queue) : queue[i].source # s)
    /\ [](Present = {} =>
            /\ wpc[1] \in {"start", "test", "drain", "join", "fin_unreg", "fin_cb", "dead"}
            /\ calls \in {<<>>, <<FinishedCall>>}
            /\ wpc[1] \in {"fin_unreg", "fin_cb", "dead"} => calls = <<FinishedCall>>
            /\ ~rd.timed_out
            /\ ~timed_out[1])

\* a multiplexer without any reader has reported the finished callback,
\* both deadlines configured and passed
C33_Witness ==
    /\ Present = {}
    /\ wpc[1] = "dead"
    /\ calls = <<FinishedCall>>
    /\ cfg.timeout # None /\ cfg.output_timeout # None
    /\ now = MaxTime

\* with a stdout reader only the loop has run while it was alive and has been
\* left when it had ended
C33_WitnessStdoutOnly ==
    /\ Present = {"stdout"}
    /\ wpc[1] = "dead"
    /\ ~rd.timed_out
    /\ Len(calls) = MaxLines + 1
    /\ rd.item # None

\* ------------------------------------------------- claims under SpecLock

\* what the thread that holds the lock can do next: a statement of its with
\* block, or the end of the block
HolderStep ==
    \/ Release
    \/ \E exp \in ExpectedCodes : LockedMainExecute(exp)
    \/ \E t \in TaskIds, exp \in ExpectedCodes : LockedCallbackSpawn(t, exp)
    \/ \E t \in TaskIds : LockedUnregister(t)
    \/ LockedWftSnapshot
    \/ LockedWftClear
    \/ LockedWftReturn

\* a worker that stands before _register_task or _unregister_task gets the
\* lock, or the lock is with a thread that is about to give it back
WorkerGetsLock(t, sec) ==
    \/ ENABLED Acquire(Worker(t), sec)
    \/ lock.holder # NoThread /\ ENABLED HolderStep

C34_LockState ==
    /\ mpc = "wft_join" => lock.holder # Main
    /\ lock.holder # NoThread => ENABLED HolderStep
    /\ \A t \in TaskIds, sec \in {"register", "unregister"} :
           InWaitForTasks /\ Before(Worker(t), sec) => WorkerGetsLock(t, sec)
    /\ InWaitForTasks => ENABLED NextLock

C34_LockSteps ==
    (tasks' # tasks \/ silent_errors' # silent_errors) =>
        (lock.holder # NoThread /\ lock' = lock)

\* C34: the session lock is held whenever the live-task list or the
\* silent-error list changes and never while wait_for_tasks is blocked in a
\* task's wait(); the holder of the lock can always go on, so a worker that
\* wants to register or unregister a task while the caller is inside
\* wait_for_tasks gets the lock, and no state inside wait_for_tasks is a
\* deadlock
C34_LockOnlyAroundLists == []C34_LockState /\ [][C34_LockSteps]_vars

\* a worker has unregistered its task under the lock while the caller is
\* blocked in a task's wait()
C34_Witness ==
    /\ mpc = "wft_join"
    /\ lock.holder.thread = "worker"
    /\ lock.section = "unregister"
    /\ SectionDone

\* a callback has registered a new task under the lock while the caller is
\* inside wait_for_tasks
C34_WitnessRegister ==
    /\ InWaitForTasks
    /\ lock.holder.thread = "worker"
    /\ lock.section = "register"
    /\ SectionDone

\* ------------------------------------------------- claims under SpecSpawn

\* the constructor of task t has raised after Task.__init__
ConstructorFailed(t) == cpc[t] = "failed"

\* C38: a command task whose constructor fails after the task has registered
\* itself (the transport raises before the reader is started) does not remain
\* in the session's live set, so that every task of the live set has a
\* worker that was started
C38_FailedTaskNotLive ==
    \A t \in TaskIds : ConstructorFailed(t) =>
        /\ t \notin SeqToSet(tasks)
        /\ \A u \in SeqToSet(tasks) : wpc[u] # "unstarted"

\* C38, what the code does: the task stays in the live set for good, with a
\* reader that has no thread
C38_FailedTaskStaysLive ==
    \A t \in TaskIds : ConstructorFailed(t) =>
        /\ Count(tasks, t) = 1
        /\ wpc[t] = "unstarted"
        /\ ~IsAlive(t)

\* a wait_for_tasks call has returned and the failed task is still live
C38_StaysLiveWitness ==
    /\ \E t \in TaskIds : ConstructorFailed(t) /\ t \in SeqToSet(tasks) /\ explicit_wait[t]
    /\ Len(results) = 1
    /\ mpc = "idle"

\* wait_for_tasks has returned its errors or raised TaskErrors
WftReturned == mpc \in {"idle", "exit_close", "exited"}

\* a task.wait() inside wait_for_tasks has raised
WftCrashed == mpc = "crashed"

\* every call of wait_for_tasks comes to its end
C35_Terminates == InWaitForTasks ~> (WftReturned \/ WftCrashed)

\* the snapshot that ends the loop has no live task that was not waited, and
\* the tasks the call has waited (wait() was called on them) are the tasks
\* of its snapshots
C35_WaitedAreSeen ==
    /\ \A t \in tasks_seen \cup (wft_tasks \ wft_todo) : explicit_wait[t]
    /\ mpc = "wft_final" => wft_tasks = {} /\ wft_todo = {}
    /\ mpc = "wft_clear" => wft_todo = {}

C35_LastSnapshot ==
    /\ (mpc = "wft_snap" /\ mpc' = "wft_final") => SeqToSet(tasks) \subseteq tasks_seen
    /\ (mpc = "wft_snap" /\ mpc' = "wft_loop") =>
           wft_tasks' = SeqToSet(tasks) \ tasks_seen /\ wft_tasks' # {}
    /\ mpc = "wft_clear" /\ mpc' # mpc => tasks_seen' = tasks_seen \cup wft_tasks

\* C35: when every wait() returns (the commands end, the workers run) a
\* call of wait_for_tasks reaches a snapshot with no unseen live task and
\* returns, also when a task stays in the live set for good; the tasks it
\* has waited are those it saw live in its snapshots
C35_WaitForTasksTerminates ==
    /\ C35_Terminates
    /\ []C35_WaitedAreSeen
    /\ [][C35_LastSnapshot]_vars

\* a call has returned, having waited a task that is still in the live set
C35_Witness ==
    /\ Len(results) = 1
    /\ mpc = "idle"
    /\ \E t \in SeqToSet(tasks) : explicit_wait[t] /\ ConstructorFailed(t)
    /\ \E t \in TaskIds : kind[t] # "none" /\ t \notin SeqToSet(tasks) /\ explicit_wait[t]

\* ------------------------------------------------- claims under Spec (wait, then wait_for_tasks)

\* the errors that a wait(raise_if_error=True) of the caller has raised: the
\* task's own error, not the AttributeError of a task under construction
SurfacedByWait ==
    {waits[i].raised[1] : i \in {j \in 1..Len(waits) :
         /\ waits[j].raised # None
         /\ waits[j].raised = waits[j].error}}

\* ... by a wait() that was called before the task unregistered: the
\* unregistration has kept no silent error
SurfacedBeforeUnregistration ==
    {e \in SurfacedByWait : \A a \in appended : a[1] # e}

\* a wait_for_tasks call returns in this step
WftReturns == Len(results') = Len(results) + 1

\* C36: an error that an explicit wait() has raised to the caller is not in
\* the result of a later wait_for_tasks call, whenever wait() was called
C36_SurfacedOnce ==
    [][WftReturns => \A e \in SurfacedByWait :
          e \notin SeqToSet(results'[Len(results')].errors)]_vars

\* C36, what the code does: the error is not reported again when wait() was
\* called before the task unregistered
C36_SurfacedOnceWhenWaitedBefore ==
    [][WftReturns => \A e \in SurfacedBeforeUnregistration :
          e \notin SeqToSet(results'[Len(results')].errors)]_vars

\* a wait() called before the task unregistered has raised its error, and a
\* wait_for_tasks call has returned afterwards
C36_WaitedBeforeWitness ==
    /\ SurfacedBeforeUnregistration # {}
    /\ Len(results) = 1
    /\ results[1].errors = <<>>
    /\ mpc = "idle"

\* ------------------------------------------------- claims under FairReader

\* every stream that is present has reached end-of-file
AllStreamsAtEof == ~AnyReaderAlive

\* a total timeout is configured, and the clock of the model goes beyond it
TotalTimeoutConfigured ==
    /\ wpc[1] # "start"
    /\ cfg.timeout # None
    /\ rd.start_time + cfg.timeout[1] < MaxTime

\* the task is unregistered and its worker has ended, so that wait() returns
UnregisteredAndOver == 1 \notin SeqToSet(tasks) /\ wpc[1] = "dead"

C37_WitnessEof ==
    /\ UnregisteredAndOver
    /\ AllStreamsAtEof
    /\ \A s \in Streams : rstate[s] = "dead" /\ source[s] # <<>>
    /\ cfg.timeout = None /\ cfg.output_timeout = None
    /\ exit_code[1] # None

=============================================================================
